---- MODULE Spec2Model ----
(***************************************************************************)
(* Model of the CT log viewer client (src/script.js, class CTLogViewer,    *)
(* first implementation, lines 1-1424): per-panel buffers and lazy loader, *)
(* the cross-panel second index, the error-position tracker and the        *)
(* second-selection protocol.  One action per event-loop task: a user      *)
(* event handler, a fetch settling, or a timer firing.                     *)
(***************************************************************************)
EXTENDS Integers, Sequences, FiniteSets, TLC

(***************************************************************************)
(* Bounds.  linesPerPage (100 in the source) and SecondLimit (the limit 50 *)
(* of loadSecondFromPanel) are scaled down together with the streams.      *)
(* MaxEvents bounds the inputs of one session: user events (which begin    *)
(* once initializeViewer has finished and the loading overlay is hidden)   *)
(* and failing fetches.                                                    *)
(***************************************************************************)
linesPerPage == 2
SecondLimit == 2
MaxEvents == 3

Panels == {"bt", "out", "rs"}
\* Object.keys(this.logs) iteration order
PanelOrder == <<"bt", "out", "rs">>
NoKey == ""
SearchTerms == {"a"}

Line(id, ln, key, level, content) ==
    [id |-> id, lineNumber |-> ln, secondKey |-> key, level |-> level, content |-> content]

(***************************************************************************)
(* The streams held by the backend (external collaborator).  bt has two    *)
(* pages and a second (t3) that lies beyond the first page; out and rs fit *)
(* in one page.  t1 exists only in bt, t2 in bt and out, t3 in all three.  *)
(***************************************************************************)
Stream(p) ==
    CASE p = "bt"  -> << Line(1, 1, "t1", "error", "a"),
                         Line(2, 2, "t2", "normal", "b"),
                         Line(3, 3, NoKey, "warning", "a"),
                         Line(4, 4, "t3", "normal", "b") >>
      [] p = "out" -> << Line(11, 1, "t2", "warning", "b"),
                         Line(12, 2, "t3", "normal", "a") >>
      [] p = "rs"  -> << Line(21, 1, "t3", "error", "a") >>

Min(a, b) == IF a < b THEN a ELSE b

\* GET /api/logs?panel&offset&limit[&search]: filter by search, then slice
Matches(line, search) == search = "" \/ line.content = search
ServerPage(p, offset, limit, search) ==
    LET f == SelectSeq(Stream(p), LAMBDA l : Matches(l, search))
    IN  SubSeq(f, offset + 1, Min(offset + limit, Len(f)))

\* GET /api/logs?panel&second&limit: the lines of that second, at most limit
ServerSecond(p, key, limit) ==
    LET f == SelectSeq(Stream(p), LAMBDA l : l.secondKey = key)
    IN  SubSeq(f, 1, Min(limit, Len(f)))

\* GET /api/stats: totalLines of a stream
ServerTotal(p) == Len(Stream(p))

VARIABLES
    logs,            \* this.logs[panel]: visibleLines, currentOffset, totalLines, loading
    stats,           \* TRUE once this.stats holds the /api/stats answer
    secondIndex,     \* this.secondIndex: secondKey -> panel -> lines (sparse)
    errorPositions,  \* this.errorPositions[panel]
    selectedSecond,  \* this.selectedSecond (NoKey = null)
    isGroupSelectionActive,
    syncScroll,
    pageReqs,        \* per panel: loadLogData fetches in flight
    secReqs,         \* per panel: loadSecondFromPanel fetches in flight
    sels,            \* running loadAndHighlightSecond invocations (userSync:
                     \* syncScroll when the invocation, or the first of those it
                     \* overlaps with, began; toggled: the sync-scroll button was
                     \* clicked since then)
    settleQ,         \* pending 100 ms timers, in scheduling order
    restoreQ,        \* pending 1000 ms timers, in scheduling order
    pc,              \* position of initializeViewer
    events,          \* user events and failed fetches so far
    hist,            \* per panel: loads applied since (and with) the last offset-0 page
    scrollSyncTimer, \* the pending 16 ms callbacks of throttleScrollSync, each with
                     \* the panel it was armed for (this.scrollSyncTimer holds the
                     \* timer while it is pending)
    frames,          \* panels with a mirrored scrollTop write waiting for the
                     \* next animation frame
    geo,             \* per panel: scrollTop, scrollHeight, clientHeight
    target,          \* per panel: the targetScrollTop of its waiting write
    view,            \* per panel: the content of this.logs[panel].element
    highlight,       \* per panel: the key whose elements carry selected-second
    currentSearch,   \* this.currentSearch
    debounceTimer,   \* the pending 300 ms callbacks of debounceSearch and
                     \* debouncePanelSearch (this.debounceTimer holds the last one)
    searchReqs,      \* /api/search fetches in flight
    searchResults,   \* per panel: log.searchResults (line ids)
    issued,          \* the term of the /api/search request sent last, and
                     \* whether a search request has failed
    last             \* the task that ran last

vars == << logs, stats, secondIndex, errorPositions, selectedSecond,
           isGroupSelectionActive, syncScroll, pageReqs, secReqs, sels,
           settleQ, restoreQ, pc, events, hist, scrollSyncTimer, frames, geo,
           target, view, highlight, currentSearch, debounceTimer, searchReqs,
           searchResults, issued, last >>

----------------------------------------------------------------------------
(* Pure helpers *)

IsErr(line) == line.level = "error" \/ line.level = "warning"

HasSecond(lines, key) == \E i \in 1..Len(lines) : lines[i].secondKey = key

Range(s) == { s[i] : i \in 1..Len(s) }

RemoveAt(s, i) == SubSeq(s, 1, i - 1) \o SubSeq(s, i + 1, Len(s))

EmptyIndex == [k \in {} |-> <<>>]

\* secondIndex[line.secondKey][panel].push(line), creating the entries on demand
IndexPush(idx, panel, line) ==
    IF line.secondKey = NoKey THEN idx
    ELSE LET k == line.secondKey
             byPanel == IF k \in DOMAIN idx THEN idx[k] ELSE [q \in {} |-> <<>>]
             lst == IF panel \in DOMAIN byPanel THEN byPanel[panel] ELSE <<>>
             byPanel2 == [q \in (DOMAIN byPanel) \cup {panel} |->
                            IF q = panel THEN Append(lst, line) ELSE byPanel[q]]
         IN  [kk \in (DOMAIN idx) \cup {k} |-> IF kk = k THEN byPanel2 ELSE idx[kk]]

RECURSIVE IndexPushAll(_, _, _)
IndexPushAll(idx, panel, newLines) ==
    IF newLines = <<>> THEN idx
    ELSE IndexPushAll(IndexPush(idx, panel, Head(newLines)), panel, Tail(newLines))

RECURSIVE BuildFrom(_, _, _)
BuildFrom(idx, L, i) ==
    IF i > Len(PanelOrder) THEN idx
    ELSE BuildFrom(IndexPushAll(idx, PanelOrder[i], L[PanelOrder[i]].visibleLines), L, i + 1)

\* buildSecondIndex: wholesale recompute from all panels' buffers
buildSecondIndex(L) == BuildFrom(EmptyIndex, L, 1)

\* the forEach((line, index) => ...) of both error scans: one entry per
\* error/warning line, offset = base + index in the scanned array
RECURSIVE ErrScan(_, _, _)
ErrScan(lines, i, base) ==
    IF i > Len(lines) THEN <<>>
    ELSE (IF IsErr(lines[i])
          THEN << [lineNumber |-> lines[i].lineNumber, level |-> lines[i].level,
                   offset |-> base + (i - 1)] >>
          ELSE <<>>) \o ErrScan(lines, i + 1, base)

\* detectErrorsFromLoadedContent that keeps the entries it finds in the list
detectErrorsFromLoadedContent_NoClear(E, L, panel) ==
    IF Len(L[panel].visibleLines) = 0 THEN E
    ELSE [E EXCEPT ![panel] = @ \o ErrScan(L[panel].visibleLines, 1, L[panel].currentOffset)]

\* detectErrorsFromLoadedContent: rebuild from the whole buffer (no-op on an
\* empty buffer)
detectErrorsFromLoadedContent(E, L, panel) ==
    IF Len(L[panel].visibleLines) = 0 THEN E
    ELSE [E EXCEPT ![panel] = ErrScan(L[panel].visibleLines, 1, L[panel].currentOffset)]

\* updateErrorPositionsFromNewContent that pushes the matches on the list of
\* every panel
updateErrorPositionsFromNewContent_AllPanels(E, L, panel, newLines) ==
    [q \in Panels |-> E[q] \o ErrScan(newLines, 1, L[panel].currentOffset)]

\* updateErrorPositionsFromNewContent: append the matches of newLines
updateErrorPositionsFromNewContent(E, L, panel, newLines) ==
    [E EXCEPT ![panel] = @ \o ErrScan(newLines, 1, L[panel].currentOffset)]

\* updateSecondIndex whose loop stops one line early
updateSecondIndex_DropLast(idx, panel, newLines) ==
    IndexPushAll(idx, panel, SubSeq(newLines, 1, Len(newLines) - 1))

\* updateSecondIndex that starts the lists of the panel afresh
updateSecondIndex_Restart(idx, panel, newLines) ==
    IndexPushAll([k \in DOMAIN idx |-> [q \in (DOMAIN idx[k]) \ {panel} |-> idx[k][q]]],
                 panel, newLines)

\* updateSecondIndex: extend the index, then the error positions
updateSecondIndex(idx, panel, newLines) == IndexPushAll(idx, panel, newLines)

----------------------------------------------------------------------------
(* Record of the task that ran last *)

Last(op, panel, offset, search, second, ok, batch) ==
    [op |-> op, panel |-> panel, offset |-> offset, search |-> search,
     second |-> second, ok |-> ok, batch |-> batch]

NoPanel == "none"

----------------------------------------------------------------------------
(* Rendering *)

\* Array.prototype.sort() without a comparator orders strings by their
\* UTF-16 code units; KeyOrder lists the second keys of the model in that
\* order and KeyLess is the comparison the sort makes
KeyOrder == << "t1", "t2", "t3" >>

KeyRank(k) == CHOOSE i \in 1..Len(KeyOrder) : KeyOrder[i] = k

KeyLess(a, b) == KeyRank(a) < KeyRank(b)

\* one pass of the forEach that fills the Map `grouped`: a line without
\* secondKey is skipped, a new key gets its entry at the end (a Map keeps
\* insertion order), the line is pushed on the list of its key
GroupPush(grouped, line) ==
    IF line.secondKey = NoKey THEN grouped
    ELSE IF \E i \in 1..Len(grouped) : grouped[i].secondKey = line.secondKey
         THEN [i \in 1..Len(grouped) |->
                 IF grouped[i].secondKey = line.secondKey
                 THEN [grouped[i] EXCEPT !.events = Append(@, line)]
                 ELSE grouped[i]]
         ELSE Append(grouped, [secondKey |-> line.secondKey, events |-> << line >>])

RECURSIVE GroupLines(_, _, _)
GroupLines(grouped, lines, i) ==
    IF i > Len(lines) THEN grouped
    ELSE GroupLines(GroupPush(grouped, lines[i]), lines, i + 1)

\* insertion of one group into a list of groups sorted by key
SortedInsert(sorted, g) ==
    LET n == Cardinality({ i \in 1..Len(sorted) : KeyLess(sorted[i].secondKey, g.secondKey) })
    IN  SubSeq(sorted, 1, n) \o << g >> \o SubSeq(sorted, n + 1, Len(sorted))

RECURSIVE SortByKey(_)
SortByKey(groups) ==
    IF groups = << >> THEN << >>
    ELSE SortedInsert(SortByKey(Tail(groups)), Head(groups))

\* a header and an events container per group
GroupElement(g) == [secondKey |-> g.secondKey, count |-> Len(g.events), events |-> g.events]

\* renderGroupedLog that walks the Map in insertion order
renderGroupedLog_Unsorted(lines) ==
    LET grouped == GroupLines(<< >>, lines, 1)
    IN  [i \in 1..Len(grouped) |-> GroupElement(grouped[i])]

\* renderGroupedLog: the groups of a buffer as they are appended to the
\* panel element, each with its key, its "<n> events" count and its lines
renderGroupedLog(lines) ==
    LET sorted == SortByKey(GroupLines(<< >>, lines, 1))
    IN  [i \in 1..Len(sorted) |-> GroupElement(sorted[i])]

\* content of a panel element: nothing yet, the groups of the last
\* renderLog, or the message loadLogData writes in its catch block
EmptyView == [kind |-> "empty", groups |-> << >>]
ErrorView == [kind |-> "error", groups |-> << >>]
renderLog(lines) == [kind |-> "groups", groups |-> renderGroupedLog(lines)]

\* the panel element holds an element with data-second-key = key
Rendered(v, key) == \E i \in 1..Len(v.groups) : v.groups[i].secondKey = key

\* highlightSecondInPanel: the class selected-second is taken from every
\* element of the panel and put on those with data-second-key = key; the
\* result is the key whose elements carry the class (NoKey: none does)
highlightSecondInPanel(v, key) == IF Rendered(v, key) THEN key ELSE NoKey

----------------------------------------------------------------------------
(* Scroll mirroring *)

(***************************************************************************)
(* Panel geometry as the DOM reports it, in whole pixels: scrollHeight up  *)
(* to MaxScrollHeight, a clientHeight of ClientHeights, and a scrollTop    *)
(* between 0 and the scroll range scrollHeight - clientHeight.  The        *)
(* mirroring code reads the range and the sign of scrollHeight only, so    *)
(* one clientHeight gives every case except a panel that has content and a *)
(* negative range (content shorter than the viewport).                     *)
(***************************************************************************)
MaxScrollHeight == 4

ClientHeights == {1}

Max(a, b) == IF a > b THEN a ELSE b

Abs(a) == IF a < 0 THEN 0 - a ELSE a

ScrollRange(g) == g.scrollHeight - g.clientHeight

PanelGeo ==
    { [scrollTop |-> t, scrollHeight |-> sh, clientHeight |-> ch] :
        sh \in 0..MaxScrollHeight, ch \in ClientHeights, t \in 0..MaxScrollHeight }

Geometries ==
    [Panels -> { g \in PanelGeo : g.scrollTop <= Max(0, ScrollRange(g)) }]

NoGeometry == [p \in Panels |-> [scrollTop |-> 0, scrollHeight |-> 0, clientHeight |-> 0]]

NoTargets == [p \in Panels |-> [num |-> 0, den |-> 1, src |-> NoPanel]]

\* throttleScrollSync without the test of this.scrollSyncTimer
throttleScrollSync_NoGuard(timer, sync, panel) ==
    IF sync THEN Append(timer, panel) ELSE timer

\* throttleScrollSync as called by handleScroll: with syncScroll on and no
\* timer pending, the 16 ms timer is armed for the scrolled panel
throttleScrollSync(timer, sync, panel) ==
    IF sync /\ timer = <<>> THEN Append(timer, panel) ELSE timer

\* syncScrollPosition with a threshold of 2 px
syncScrollPosition_Coarse(G, scrolled, sync, active) ==
    IF ~sync \/ active THEN {}
    ELSE LET n == G[scrolled].scrollTop
             d == Max(1, ScrollRange(G[scrolled]))
         IN  { [panel |-> q, num |-> n * ScrollRange(G[q]), den |-> d, src |-> scrolled] :
                 q \in { q \in Panels \ {scrolled} :
                           /\ G[q].scrollHeight > 0
                           /\ Abs(n * ScrollRange(G[q]) - G[q].scrollTop * d) > 2 * d } }

\* syncScrollPosition on the geometry G: nothing with syncScroll off or a
\* group transition active; otherwise the writes it hands to
\* requestAnimationFrame, one for every other panel with scrollHeight > 0
\* whose scrollTop is more than 1 px from scrollPercentage times its range.
\* A targetScrollTop is the fraction num / den, with
\* scrollPercentage = scrollTop / max(1, scrollHeight - clientHeight).
syncScrollPosition(G, scrolled, sync, active) ==
    IF ~sync \/ active THEN {}
    ELSE LET n == G[scrolled].scrollTop
             d == Max(1, ScrollRange(G[scrolled]))
         IN  { [panel |-> q, num |-> n * ScrollRange(G[q]), den |-> d, src |-> scrolled] :
                 q \in { q \in Panels \ {scrolled} :
                           /\ G[q].scrollHeight > 0
                           /\ Abs(n * ScrollRange(G[q]) - G[q].scrollTop * d) > d } }

\* the sets of panels syncScrollPosition can schedule a write for, over all
\* geometries the panels may have when the timer fires
MirrorSets ==
    [scrolled \in Panels, sync \in BOOLEAN, active \in BOOLEAN |->
       { { w.panel : w \in syncScrollPosition(G, scrolled, sync, active) } :
           G \in Geometries }]

----------------------------------------------------------------------------
(* Lazy loader *)

\* loadLogData with the `if (log.loading) return` guard left out
loadLogData_NoGuard(S, panel, offset, search, init) ==
    [logs |-> [S.logs EXCEPT ![panel].loading = TRUE],
     pageReqs |-> [S.pageReqs EXCEPT ![panel] =
                     Append(@, [offset |-> offset, search |-> search, init |-> init])]]

\* loadLogData that checks the flag but never sets it
loadLogData_FlagNotSet(S, panel, offset, search, init) ==
    IF S.logs[panel].loading THEN S
    ELSE [logs |-> S.logs,
          pageReqs |-> [S.pageReqs EXCEPT ![panel] =
                          Append(@, [offset |-> offset, search |-> search, init |-> init])]]

\* loadLogData up to its first await, on the state S = [logs, pageReqs]:
\* a panel that is loading ignores the call, otherwise the flag is set and
\* the request goes out
loadLogData(S, panel, offset, search, init) ==
    IF S.logs[panel].loading THEN S
    ELSE [logs |-> [S.logs EXCEPT ![panel].loading = TRUE],
          pageReqs |-> [S.pageReqs EXCEPT ![panel] =
                          Append(@, [offset |-> offset, search |-> search, init |-> init])]]

Cur == [logs |-> logs, pageReqs |-> pageReqs]

\* the buffer update without the offset === 0 branch: every page is appended
ApplyPage_AlwaysAppend(log, offset, data, total) ==
    [log EXCEPT !.visibleLines = log.visibleLines \o data,
                !.totalLines = total]

\* the buffer update that assigns data.lines in both branches
ApplyPage_AlwaysReplace(log, offset, data, total) ==
    [log EXCEPT !.visibleLines = data,
                !.currentOffset = IF offset = 0 THEN 0 ELSE log.currentOffset,
                !.totalLines = total]

\* the buffer update that moves currentOffset to the offset of the page
ApplyPage_AdvanceOffset(log, offset, data, total) ==
    [log EXCEPT !.visibleLines = IF offset = 0 THEN data ELSE log.visibleLines \o data,
                !.currentOffset = offset,
                !.totalLines = total]

\* the buffer update of a successful page: offset 0 replaces, others append
ApplyPage(log, offset, data, total) ==
    [log EXCEPT !.visibleLines = IF offset = 0 THEN data ELSE log.visibleLines \o data,
                !.currentOffset = IF offset = 0 THEN 0 ELSE log.currentOffset,
                !.totalLines = total]

\* a catch block that also empties the buffer it could not refresh
FailPage_ClearsBuffer(log) == [log EXCEPT !.loading = FALSE, !.visibleLines = <<>>]

\* a failure path without the finally block
FailPage_KeepsLoading(log) == log

\* catch and finally of loadLogData: only the loading flag changes
FailPage(log) == [log EXCEPT !.loading = FALSE]

\* this.stats[panel]?.totalLines || 0
StatsTotal(panel) == IF stats THEN ServerTotal(panel) ELSE 0

\* the continuation of initializeViewer after Promise.all is a microtask: it
\* runs before any other task once no initial page load is outstanding
InitReady ==
    /\ pc = "pages"
    /\ \A p \in Panels : \A i \in 1..Len(pageReqs[p]) : ~pageReqs[p][i].init

CanAct == events < MaxEvents /\ pc = "done"

mirrorVars == << scrollSyncTimer, frames, geo, target >>

selVars == << selectedSecond, isGroupSelectionActive, syncScroll, secReqs, sels,
              settleQ, restoreQ >>

domVars == << view, highlight >>

NoneIssued == [term |-> "", failed |-> FALSE]

searchVars == << currentSearch, debounceTimer, searchReqs, searchResults, issued >>

Init ==
    /\ logs = [p \in Panels |-> [visibleLines |-> <<>>, currentOffset |-> 0,
                                 totalLines |-> 0, loading |-> FALSE]]
    /\ stats = FALSE
    /\ secondIndex = EmptyIndex
    /\ errorPositions = [p \in Panels |-> <<>>]
    /\ selectedSecond = NoKey
    /\ isGroupSelectionActive = FALSE
    /\ syncScroll = FALSE
    /\ scrollSyncTimer = <<>>
    /\ frames = {}
    /\ geo = NoGeometry
    /\ target = NoTargets
    /\ pageReqs = [p \in Panels |-> <<>>]
    /\ secReqs = [p \in Panels |-> <<>>]
    /\ sels = [i \in {} |-> 0]
    /\ settleQ = <<>>
    /\ restoreQ = <<>>
    /\ pc = "stats"
    /\ events = 0
    /\ hist = [p \in Panels |-> <<>>]
    /\ view = [p \in Panels |-> EmptyView]
    /\ highlight = [p \in Panels |-> NoKey]
    /\ currentSearch = ""
    /\ debounceTimer = <<>>
    /\ searchReqs = <<>>
    /\ searchResults = [p \in Panels |-> <<>>]
    /\ issued = NoneIssued
    /\ last = Last("new", NoPanel, 0, "", NoKey, TRUE, <<>>)

\* initializeViewer: /api/stats settles (loadStats swallows a failure), then
\* the three initial loadLogData(panel, 0) calls are made
StatsArrive(ok) ==
    /\ pc = "stats"
    /\ (ok \/ events < MaxEvents)
    /\ events' = IF ok THEN events ELSE events + 1
    /\ stats' = ok
    /\ LET S == loadLogData(loadLogData(loadLogData(Cur, "bt", 0, "", TRUE),
                                        "out", 0, "", TRUE), "rs", 0, "", TRUE)
       IN  logs' = S.logs /\ pageReqs' = S.pageReqs
    /\ pc' = "pages"
    /\ last' = Last("stats", NoPanel, 0, "", NoKey, ok, <<>>)
    /\ UNCHANGED << secondIndex, errorPositions, hist >>
    /\ UNCHANGED selVars
    /\ UNCHANGED mirrorVars
    /\ UNCHANGED << domVars, searchVars >>

\* initializeViewer after the initial loads: buildSecondIndex, then
\* loadAllErrors (detectErrorsFromLoadedContent for every panel)
InitContinue ==
    /\ InitReady
    /\ secondIndex' = buildSecondIndex(logs)
    /\ errorPositions' =
         detectErrorsFromLoadedContent(
           detectErrorsFromLoadedContent(
             detectErrorsFromLoadedContent(errorPositions, logs, "bt"), logs, "out"),
           logs, "rs")
    /\ pc' = "done"
    /\ last' = Last("initDone", NoPanel, 0, "", NoKey, TRUE, <<>>)
    /\ UNCHANGED << logs, stats, pageReqs, events, hist >>
    /\ UNCHANGED selVars
    /\ UNCHANGED mirrorVars
    /\ UNCHANGED << domVars, searchVars >>

\* a catch block that sends the failed request again
Done_RetryOnFailure(Q, i, ok) ==
    IF ok THEN RemoveAt(Q, i) ELSE Append(RemoveAt(Q, i), Q[i])

\* the outstanding requests Q of a panel once its i-th fetch has settled:
\* on success and in the catch block alike the function returns without
\* another fetch
Done(Q, i, ok) == RemoveAt(Q, i)

\* loadLogData after its fetch settled: the i-th outstanding page request of
\* panel succeeds (ok) or fails (transport error or non-OK status)
loadLogData_settled(panel, i, ok) ==
    /\ ~InitReady
    /\ i \in 1..Len(pageReqs[panel])
    /\ (ok \/ events < MaxEvents)
    /\ events' = IF ok THEN events ELSE events + 1
    /\ LET req == pageReqs[panel][i]
           data == ServerPage(panel, req.offset, linesPerPage, req.search)
           log2 == ApplyPage(logs[panel], req.offset, data, StatsTotal(panel))
       IN  /\ pageReqs' = [pageReqs EXCEPT ![panel] = Done(@, i, ok)]
           /\ IF ok
              THEN /\ logs' = [logs EXCEPT ![panel] = [log2 EXCEPT !.loading = FALSE]]
                   /\ secondIndex' = updateSecondIndex(secondIndex, panel, data)
                   /\ errorPositions' =
                        updateErrorPositionsFromNewContent(
                          errorPositions, [logs EXCEPT ![panel] = log2], panel, data)
                   /\ hist' = [hist EXCEPT ![panel] =
                                 (IF req.offset = 0 THEN <<>> ELSE @) \o
                                 << [kind |-> "page", offset |-> req.offset, search |-> req.search,
                                     lines |-> data] >>]
              ELSE /\ logs' = [logs EXCEPT ![panel] = FailPage(@)]
                   /\ UNCHANGED << secondIndex, errorPositions, hist >>
           /\ last' = Last("page", panel, req.offset, req.search, NoKey, ok,
                           IF ok THEN data ELSE <<>>)
    /\ UNCHANGED << stats, pc >>
    /\ UNCHANGED selVars
    /\ UNCHANGED mirrorVars

\* the same, without the panel element
PageArrive(panel, i, ok) == loadLogData_settled(panel, i, ok) /\ UNCHANGED << domVars, searchVars >>

\* the same, with the panel element: renderLog empties the element and
\* renders the buffer, the catch block replaces the content by its message
PageArriveDom(panel, i, ok) ==
    /\ loadLogData_settled(panel, i, ok)
    /\ view' = [view EXCEPT ![panel] =
                  IF ok THEN renderLog(logs'[panel].visibleLines) ELSE ErrorView]
    /\ highlight' = [highlight EXCEPT ![panel] = NoKey]
    /\ UNCHANGED searchVars

\* clearSelection that resets the transition flag only
ClearedSel_FlagOnly ==
    [selectedSecond |-> selectedSecond, isGroupSelectionActive |-> FALSE,
     highlight |-> [p \in Panels |-> NoKey]]

\* clearSelection that leaves the transition flag as it is
ClearedSel_KeepsFlag ==
    [selectedSecond |-> NoKey, isGroupSelectionActive |-> isGroupSelectionActive,
     highlight |-> [p \in Panels |-> NoKey]]

\* clearSelection
ClearedSel ==
    [selectedSecond |-> NoKey, isGroupSelectionActive |-> FALSE,
     highlight |-> [p \in Panels |-> NoKey]]

\* handleScroll whose pagination test leaves out newOffset < log.totalLines
handleScroll_NoTotalCheck(S, panel, nearBottom) ==
    LET log == S.logs[panel]
        newOffset == log.currentOffset + Len(log.visibleLines)
    IN  IF nearBottom /\ ~log.loading
        THEN loadLogData(S, panel, newOffset, "", FALSE)
        ELSE S

\* handleScroll whose pagination test is newOffset <= log.totalLines
handleScroll_OffByOne(S, panel, nearBottom) ==
    LET log == S.logs[panel]
        newOffset == log.currentOffset + Len(log.visibleLines)
    IN  IF nearBottom /\ newOffset <= log.totalLines /\ ~log.loading
        THEN loadLogData(S, panel, newOffset, "", FALSE)
        ELSE S

\* handleScroll, pagination part, on the state S = [logs, pageReqs]: near
\* the bottom, with lines remaining and no page load running, the next page
\* is requested at currentOffset + visibleLines.length
handleScroll(S, panel, nearBottom) ==
    LET log == S.logs[panel]
        newOffset == log.currentOffset + Len(log.visibleLines)
    IN  IF nearBottom /\ newOffset < log.totalLines /\ ~log.loading
        THEN loadLogData(S, panel, newOffset, "", FALSE)
        ELSE S

\* a scroll event on a panel: the listener of bindEvents that drops a stale
\* selection, then handleScroll (with syncScroll on it arms the mirroring
\* timer, near the bottom it asks for the next page).  last.second records
\* the selection the event found.
scrollListeners(panel, nearBottom) ==
    /\ CanAct
    /\ events' = events + 1
    /\ IF selectedSecond # NoKey /\ ~isGroupSelectionActive
       THEN /\ selectedSecond' = ClearedSel.selectedSecond
            /\ isGroupSelectionActive' = ClearedSel.isGroupSelectionActive
       ELSE UNCHANGED << selectedSecond, isGroupSelectionActive >>
    /\ LET S == handleScroll(Cur, panel, nearBottom)
       IN  /\ logs' = S.logs
           /\ pageReqs' = S.pageReqs
           /\ last' = Last("scroll", panel,
                           logs[panel].currentOffset + Len(logs[panel].visibleLines),
                           "", selectedSecond, nearBottom, <<>>)
    /\ UNCHANGED << stats, secondIndex, errorPositions, pc, hist >>
    /\ UNCHANGED << syncScroll, secReqs, sels, settleQ, restoreQ >>
    /\ scrollSyncTimer' = throttleScrollSync(scrollSyncTimer, syncScroll, panel)
    /\ UNCHANGED << frames, geo, target >>

Scroll(panel, nearBottom) == scrollListeners(panel, nearBottom) /\ UNCHANGED << domVars, searchVars >>

\* with the panel elements: clearSelection takes the highlight off
ScrollDom(panel, nearBottom) ==
    /\ scrollListeners(panel, nearBottom)
    /\ highlight' = IF selectedSecond # NoKey /\ ~isGroupSelectionActive
                    THEN ClearedSel.highlight ELSE highlight
    /\ UNCHANGED view
    /\ UNCHANGED searchVars

\* clearPanelSearch: reload the unfiltered first page
ClearPanelSearch(panel) ==
    /\ CanAct
    /\ events' = events + 1
    /\ LET S == loadLogData(Cur, panel, 0, "", FALSE)
       IN  logs' = S.logs /\ pageReqs' = S.pageReqs
    /\ last' = Last("clearSearch", panel, 0, "", NoKey, TRUE, <<>>)
    /\ UNCHANGED << stats, secondIndex, errorPositions, pc, hist >>
    /\ UNCHANGED selVars
    /\ UNCHANGED mirrorVars
    /\ UNCHANGED << domVars, searchVars >>

\* performPanelSearch on the state S = [logs, pageReqs]
performPanelSearch(S, panel, term) ==
    IF term = "" THEN S ELSE loadLogData(S, panel, 0, term, FALSE)

\* a panel search input together with its debounce timer: performPanelSearch
\* with a blank term only clears highlights, with any other term it loads
\* the filtered first page
PerformPanelSearch(panel, term) ==
    /\ CanAct
    /\ events' = events + 1
    /\ LET S == performPanelSearch(Cur, panel, term)
       IN  logs' = S.logs /\ pageReqs' = S.pageReqs
    /\ last' = Last("panelSearch", panel, 0, term, NoKey, TRUE, <<>>)
    /\ UNCHANGED << stats, secondIndex, errorPositions, pc, hist >>
    /\ UNCHANGED selVars
    /\ UNCHANGED mirrorVars
    /\ UNCHANGED << domVars, searchVars >>

----------------------------------------------------------------------------
(* Selection controller *)

\* loadSecondFromPanel without the isAlreadyLoaded check
loadSecondFromPanel_NoCheck(R, L, panel, key, sel) ==
    [R EXCEPT ![panel] = Append(@, [second |-> key, sel |-> sel])]

\* loadSecondFromPanel up to its await, on the outstanding requests R: nothing
\* when a loaded line of the panel carries the key, else the request goes out
loadSecondFromPanel(R, L, panel, key, sel) ==
    IF HasSecond(L[panel].visibleLines, key) THEN R
    ELSE [R EXCEPT ![panel] = Append(@, [second |-> key, sel |-> sel])]

FreeId == CHOOSE i \in 1..(MaxEvents + 1) :
            i \notin DOMAIN sels /\ \A j \in 1..(i - 1) : j \in DOMAIN sels

Without(f, id) == [j \in (DOMAIN f) \ {id} |-> f[j]]

\* a continuation of Promise.all that schedules no timer
Settled_NoTimer(S, Q, id) ==
    [sels |-> [S EXCEPT ![id].phase = "settle"], settleQ |-> Q]

\* Promise.all of loadAndHighlightSecond has resolved for invocation id:
\* the 100 ms timer is scheduled
Settled(S, Q, id) ==
    [sels |-> [S EXCEPT ![id].phase = "settle"], settleQ |-> Append(Q, id)]

\* a combinator that resolves as soon as at most one call is outstanding
PromiseAll_ButOne(S, Q, id) ==
    IF Cardinality(S[id].waiting) <= 1 THEN Settled(S, Q, id)
    ELSE [sels |-> S, settleQ |-> Q]

\* await Promise.all(...) of loadAndHighlightSecond for invocation id: the
\* continuation runs once no loadSecondFromPanel call is outstanding
PromiseAll(S, Q, id) ==
    IF S[id].waiting = {} THEN Settled(S, Q, id)
    ELSE [sels |-> S, settleQ |-> Q]

\* selectSecond(secondKey) by a click on a rendered group header or line:
\* clearSelection, mark the selection, then loadAndHighlightSecond fans out
\* loadSecondFromPanel over the panels
selectSecond(key) ==
    /\ CanAct
    /\ key # NoKey
    /\ \E p \in Panels : HasSecond(logs[p].visibleLines, key)
    /\ events' = events + 1
    /\ selectedSecond' = key
    /\ isGroupSelectionActive' = TRUE
    /\ LET id == FreeId
           R == loadSecondFromPanel(
                  loadSecondFromPanel(
                    loadSecondFromPanel(secReqs, logs, "bt", key, id),
                    logs, "out", key, id),
                  logs, "rs", key, id)
           waiting == { p \in Panels : Len(R[p]) > Len(secReqs[p]) }
           S == [j \in (DOMAIN sels) \cup {id} |->
                   IF j = id
                   THEN [second |-> key, waiting |-> waiting, phase |-> "fetch",
                         wasSync |-> FALSE, after |-> {},
                         userSync |-> IF DOMAIN sels = {} THEN syncScroll
                                      ELSE sels[CHOOSE o \in DOMAIN sels : TRUE].userSync,
                         toggled |-> \E o \in DOMAIN sels : sels[o].toggled]
                   ELSE sels[j]]
           T == PromiseAll(S, settleQ, id)
       IN  /\ secReqs' = R
           /\ sels' = T.sels
           /\ settleQ' = T.settleQ
    /\ last' = Last("select", NoPanel, 0, "", key, TRUE, <<>>)
    /\ UNCHANGED << logs, stats, secondIndex, errorPositions, pageReqs, pc, hist >>
    /\ UNCHANGED << syncScroll, restoreQ >>
    /\ UNCHANGED mirrorVars

SelectSecond(key) == selectSecond(key) /\ UNCHANGED << domVars, searchVars >>

\* with the panel elements: loadAndHighlightSecond first highlights what is
\* rendered
SelectSecondDom(key) ==
    /\ selectSecond(key)
    /\ highlight' = [p \in Panels |-> highlightSecondInPanel(view[p], key)]
    /\ UNCHANGED view
    /\ UNCHANGED searchVars

\* a fetch whose failure goes unnoticed
secondFetch_IgnoresFailure(panel, key, ok) == ServerSecond(panel, key, SecondLimit)

\* the lines loadSecondFromPanel has after its await: data.lines of the
\* answer; a failed fetch throws into the catch block and yields none
secondFetch(panel, key, ok) ==
    IF ok THEN ServerSecond(panel, key, SecondLimit) ELSE <<>>

\* loadSecondFromPanel after its fetch settled: lines that came back are
\* appended to the buffer and folded into the index and the error positions
loadSecondFromPanel_settled(panel, i, ok) ==
    /\ ~InitReady
    /\ i \in 1..Len(secReqs[panel])
    /\ (ok \/ events < MaxEvents)
    /\ events' = IF ok THEN events ELSE events + 1
    /\ LET req == secReqs[panel][i]
           data == secondFetch(panel, req.second, ok)
           L2 == [logs EXCEPT ![panel].visibleLines = @ \o data]
           S == [sels EXCEPT ![req.sel].waiting = @ \ {panel}]
           T == PromiseAll(S, settleQ, req.sel)
       IN  /\ secReqs' = [secReqs EXCEPT ![panel] = Done(@, i, ok)]
           /\ IF Len(data) > 0
              THEN /\ logs' = L2
                   /\ secondIndex' = updateSecondIndex(secondIndex, panel, data)
                   /\ errorPositions' =
                        updateErrorPositionsFromNewContent(errorPositions, L2, panel, data)
                   /\ hist' = [hist EXCEPT ![panel] =
                                 Append(@, [kind |-> "second", offset |-> 0, search |-> "",
                                            lines |-> data])]
              ELSE UNCHANGED << logs, secondIndex, errorPositions, hist >>
           /\ sels' = T.sels
           /\ settleQ' = T.settleQ
           /\ last' = Last("second", panel, 0, "", req.second, ok, data)
    /\ UNCHANGED << stats, pageReqs, pc >>
    /\ UNCHANGED << selectedSecond, isGroupSelectionActive, syncScroll, restoreQ >>
    /\ UNCHANGED mirrorVars

SecondArrive(panel, i, ok) == loadSecondFromPanel_settled(panel, i, ok) /\ UNCHANGED << domVars, searchVars >>

\* with the panel element: lines that came back are rendered and the key of
\* the request is highlighted
SecondArriveDom(panel, i, ok) ==
    /\ loadSecondFromPanel_settled(panel, i, ok)
    /\ IF last'.batch # << >>
       THEN /\ view' = [view EXCEPT ![panel] = renderLog(logs'[panel].visibleLines)]
            /\ highlight' = [highlight EXCEPT ![panel] =
                 highlightSecondInPanel(renderLog(logs'[panel].visibleLines), last'.second)]
       ELSE UNCHANGED domVars
    /\ UNCHANGED searchVars

\* the 100 ms timer of loadAndHighlightSecond: remember and switch off
\* syncScroll, start the centering scroll, schedule the 1000 ms timer
SettleFire ==
    /\ ~InitReady
    /\ settleQ # <<>>
    /\ LET id == Head(settleQ)
       IN  /\ sels' = [j \in DOMAIN sels |->
                         IF j = id
                         THEN [sels[j] EXCEPT !.phase = "restore", !.wasSync = syncScroll,
                                              !.after = Range(Tail(settleQ))]
                         ELSE [sels[j] EXCEPT !.after = @ \ {id}]]
           /\ restoreQ' = Append(restoreQ, id)
           /\ last' = Last("settle", NoPanel, 0, "", sels[id].second, TRUE, <<>>)
    /\ settleQ' = Tail(settleQ)
    /\ syncScroll' = FALSE
    /\ UNCHANGED << logs, stats, secondIndex, errorPositions, pageReqs, pc, events, hist >>
    /\ UNCHANGED << selectedSecond, isGroupSelectionActive, secReqs >>
    /\ UNCHANGED mirrorVars
    /\ UNCHANGED << domVars, searchVars >>

\* the 1000 ms timer: restore syncScroll, end the transition.  A 100 ms timer
\* that was pending when this timer was scheduled fires first.
RestoreFire ==
    /\ ~InitReady
    /\ restoreQ # <<>>
    /\ LET id == Head(restoreQ)
       IN  /\ sels[id].after = {}
           /\ syncScroll' = sels[id].wasSync
           /\ sels' = Without(sels, id)
           /\ last' = Last("restore", NoPanel, 0, "", sels[id].second, TRUE, <<>>)
    /\ restoreQ' = Tail(restoreQ)
    /\ isGroupSelectionActive' = FALSE
    /\ UNCHANGED << logs, stats, secondIndex, errorPositions, pageReqs, pc, events, hist >>
    /\ UNCHANGED << selectedSecond, secReqs, settleQ >>
    /\ UNCHANGED mirrorVars
    /\ UNCHANGED << domVars, searchVars >>

\* Escape: clearAllHighlights, clearSelection
escapeKey ==
    /\ CanAct
    /\ events' = events + 1
    /\ selectedSecond' = ClearedSel.selectedSecond
    /\ isGroupSelectionActive' = ClearedSel.isGroupSelectionActive
    /\ last' = Last("escape", NoPanel, 0, "", NoKey, TRUE, <<>>)
    /\ UNCHANGED << logs, stats, secondIndex, errorPositions, pageReqs, pc, hist >>
    /\ UNCHANGED << syncScroll, secReqs, sels, settleQ, restoreQ >>
    /\ UNCHANGED mirrorVars

Escape == escapeKey /\ UNCHANGED << domVars, searchVars >>

\* with the panel elements: clearSelection takes the highlight off
EscapeDom ==
    /\ escapeKey
    /\ highlight' = ClearedSel.highlight
    /\ UNCHANGED view
    /\ UNCHANGED searchVars

\* click on the sync-scroll button; the selections running at that moment
\* are marked as toggled
ToggleSyncScroll ==
    /\ CanAct
    /\ events' = events + 1
    /\ syncScroll' = ~syncScroll
    /\ sels' = [j \in DOMAIN sels |-> [sels[j] EXCEPT !.toggled = TRUE]]
    /\ last' = Last("toggleSync", NoPanel, 0, "", NoKey, TRUE, <<>>)
    /\ UNCHANGED << logs, stats, secondIndex, errorPositions, pageReqs, pc, hist >>
    /\ UNCHANGED << selectedSecond, isGroupSelectionActive, secReqs, settleQ, restoreQ >>
    /\ UNCHANGED mirrorVars
    /\ UNCHANGED << domVars, searchVars >>

\* the 16 ms timer of throttleScrollSync: syncScrollPosition for the panel
\* it was armed for, on whatever geometry the panels have at that moment
ThrottleFire ==
    /\ ~InitReady
    /\ scrollSyncTimer # <<>>
    /\ \E W \in MirrorSets[Head(scrollSyncTimer), syncScroll, isGroupSelectionActive] :
         frames' = frames \cup W
    /\ scrollSyncTimer' = Tail(scrollSyncTimer)
    /\ last' = Last("sync", Head(scrollSyncTimer), 0, "", NoKey, TRUE, <<>>)
    /\ UNCHANGED << logs, stats, secondIndex, errorPositions, pageReqs, pc, events, hist >>
    /\ UNCHANGED selVars
    /\ UNCHANGED << geo, target >>
    /\ UNCHANGED << domVars, searchVars >>

\* the animation frame: the waiting requestAnimationFrame callbacks assign
\* their targetScrollTop
FrameFire ==
    /\ ~InitReady
    /\ frames # {}
    /\ frames' = {}
    /\ last' = Last("frame", NoPanel, 0, "", NoKey, TRUE, <<>>)
    /\ UNCHANGED << logs, stats, secondIndex, errorPositions, pageReqs, pc, events, hist >>
    /\ UNCHANGED selVars
    /\ UNCHANGED << scrollSyncTimer, geo, target >>
    /\ UNCHANGED << domVars, searchVars >>

\* redrawAllLogs: renderLog for every panel that holds lines; the elements
\* are created anew, none with the selected-second class
redrawAllLogs(V, H, L) ==
    [view |-> [p \in Panels |->
                 IF Len(L[p].visibleLines) > 0 THEN renderLog(L[p].visibleLines) ELSE V[p]],
     highlight |-> [p \in Panels |->
                      IF Len(L[p].visibleLines) > 0 THEN NoKey ELSE H[p]]]

\* change of the show-timestamps checkbox: redrawAllLogs
ToggleTimestamps ==
    /\ CanAct
    /\ events' = events + 1
    /\ LET R == redrawAllLogs(view, highlight, logs)
       IN  view' = R.view /\ highlight' = R.highlight
    /\ last' = Last("redraw", NoPanel, 0, "", selectedSecond, TRUE, <<>>)
    /\ UNCHANGED << logs, stats, secondIndex, errorPositions, pageReqs, pc, hist >>
    /\ UNCHANGED selVars
    /\ UNCHANGED mirrorVars
    /\ UNCHANGED searchVars

Keys == {"t1", "t2", "t3"}

Next ==
    \/ \E ok \in BOOLEAN : StatsArrive(ok)
    \/ InitContinue
    \/ \E p \in Panels : \E i \in DOMAIN pageReqs[p], ok \in BOOLEAN : PageArrive(p, i, ok)
    \/ \E p \in Panels, nb \in BOOLEAN : Scroll(p, nb)
    \/ \E p \in Panels : ClearPanelSearch(p)
    \/ \E p \in Panels, term \in SearchTerms \cup {""} : PerformPanelSearch(p, term)
    \/ \E k \in Keys : SelectSecond(k)
    \/ \E p \in Panels : \E i \in DOMAIN secReqs[p], ok \in BOOLEAN : SecondArrive(p, i, ok)
    \/ SettleFire
    \/ RestoreFire
    \/ Escape
    \/ ToggleSyncScroll
    \/ ThrottleFire
    \/ FrameFire

Spec == Init /\ [][Next]_vars

\* The event loop runs every timer that is due, and a targeted-second fetch
\* that was sent gets its answer (or its failure)
FairSpec ==
    /\ Spec
    /\ WF_vars(SettleFire)
    /\ WF_vars(RestoreFire)
    /\ WF_vars(\E p \in Panels, i \in 1..(MaxEvents + 1) : SecondArrive(p, i, TRUE))

(***************************************************************************)
(* Spec leaves the panel elements out: view and highlight keep their       *)
(* initial values.  SpecDom is the same machine with the elements: what    *)
(* each panel shows and which key carries the selected-second class, and   *)
(* with the show-timestamps checkbox, which touches the elements only.     *)
(***************************************************************************)
NextDom ==
    \/ \E ok \in BOOLEAN : StatsArrive(ok)
    \/ InitContinue
    \/ \E p \in Panels : \E i \in DOMAIN pageReqs[p], ok \in BOOLEAN : PageArriveDom(p, i, ok)
    \/ \E p \in Panels, nb \in BOOLEAN : ScrollDom(p, nb)
    \/ \E p \in Panels : ClearPanelSearch(p)
    \/ \E p \in Panels, term \in SearchTerms \cup {""} : PerformPanelSearch(p, term)
    \/ \E k \in Keys : SelectSecondDom(k)
    \/ \E p \in Panels : \E i \in DOMAIN secReqs[p], ok \in BOOLEAN : SecondArriveDom(p, i, ok)
    \/ SettleFire
    \/ RestoreFire
    \/ EscapeDom
    \/ ToggleSyncScroll
    \/ ToggleTimestamps
    \/ ThrottleFire
    \/ FrameFire

SpecDom == Init /\ [][NextDom]_vars

----------------------------------------------------------------------------
(* Properties *)

\* the step just taken called loadLogData on panel p
CallsLoadLogData(p) ==
    \/ last'.op = "stats"
    \/ last'.op = "clearSearch" /\ last'.panel = p
    \/ last'.op = "panelSearch" /\ last'.panel = p /\ last'.search # ""
    \/ /\ last'.op = "scroll" /\ last'.panel = p /\ last'.ok
       /\ last'.offset < logs[p].totalLines
       /\ ~logs[p].loading

\* C1: at most one page fetch is in flight per panel, the loading flag is
\* set exactly while it is, a loadLogData call on a loading panel sends
\* nothing and changes no state, and a call on a panel that is not loading
\* sends exactly one request.
C1_OnePageFetch ==
    /\ [](\A p \in Panels :
            /\ Len(pageReqs[p]) <= 1
            /\ logs[p].loading <=> (Len(pageReqs[p]) = 1))
    /\ [][\A p \in Panels :
            CallsLoadLogData(p) =>
              IF logs[p].loading
              THEN /\ pageReqs'[p] = pageReqs[p]
                   /\ logs'[p] = logs[p]
                   /\ secondIndex' = secondIndex
                   /\ errorPositions' = errorPositions
              ELSE /\ Len(pageReqs'[p]) = Len(pageReqs[p]) + 1
                   /\ logs'[p] = [logs[p] EXCEPT !.loading = TRUE]]_vars

\* a clearPanelSearch call arrived while the filtered reload of the same
\* panel was still in flight, and was ignored
C1_Witness ==
    /\ last.op = "clearSearch"
    /\ pageReqs[last.panel] = << [offset |-> 0, search |-> "a", init |-> FALSE] >>
    /\ logs[last.panel].loading

\* C2 as stated: a panel never has two outstanding /api/logs requests of
\* any kind.
C2_OneFetchOfAnyKind ==
    \A p \in Panels : Len(pageReqs[p]) + Len(secReqs[p]) <= 1

\* C2 amended: a panel never has two outstanding page requests; targeted
\* second requests are outside the loading guard, and a panel has at most
\* one of them per running selection, each awaited by that selection.
C2_OnePagePlusSelections ==
    \A p \in Panels :
        /\ Len(pageReqs[p]) <= 1
        /\ \A i \in 1..Len(secReqs[p]) :
              /\ secReqs[p][i].sel \in DOMAIN sels
              /\ sels[secReqs[p][i].sel].phase = "fetch"
              /\ p \in sels[secReqs[p][i].sel].waiting
              /\ \A j \in 1..Len(secReqs[p]) :
                    secReqs[p][j].sel = secReqs[p][i].sel => j = i

\* a page request and a targeted-second request of one panel are in flight
\* together
C2_Witness ==
    \E p \in Panels : Len(pageReqs[p]) = 1 /\ Len(secReqs[p]) >= 1

\* number of entries of secondIndex[key][panel] that are the line
IndexCount(key, panel, line) ==
    IF key \in DOMAIN secondIndex /\ panel \in DOMAIN secondIndex[key]
    THEN Cardinality({ i \in 1..Len(secondIndex[key][panel]) :
                         secondIndex[key][panel][i] = line })
    ELSE 0

\* C3: once initialization is over, every buffered line that has a
\* secondKey is in secondIndex[secondKey][panel] exactly once.
C3_IndexExactlyOnce ==
    pc = "done" =>
      \A p \in Panels : \A i \in 1..Len(logs[p].visibleLines) :
          LET line == logs[p].visibleLines[i]
          IN  line.secondKey # NoKey => IndexCount(line.secondKey, p, line) = 1

\* the step just taken appended last'.batch to the buffer of panel p
AppendsBatch(p) ==
    /\ last'.op \in {"page", "second"}
    /\ last'.panel = p
    /\ last'.ok
    /\ logs'[p].visibleLines = logs[p].visibleLines \o last'.batch

(***************************************************************************)
(* The second index on arbitrary buffers: buildSecondIndex applied to any  *)
(* buffers of lines drawn from LineUniverse, then updateSecondIndex's      *)
(* index loop applied to every batch that is appended to a buffer (as on   *)
(* the success path of loadLogData with a non-zero offset and of           *)
(* loadSecondFromPanel), up to MaxBuf lines per buffer.                    *)
(***************************************************************************)
MaxBuf == 2

LineUniverse == { Line(1, 1, "t1", "error", "a"),
                  Line(2, 2, "t2", "normal", "b"),
                  Line(3, 3, NoKey, "warning", "a") }

SeqsUpTo(n) == UNION { [1..m -> LineUniverse] : m \in 0..n }

InitIndex ==
    /\ \E b \in [Panels -> SeqsUpTo(MaxBuf - 1)] :
         logs = [p \in Panels |-> [visibleLines |-> b[p], currentOffset |-> 0,
                                   totalLines |-> 0, loading |-> FALSE]]
    /\ stats = FALSE
    /\ secondIndex = buildSecondIndex(logs)
    /\ errorPositions = [p \in Panels |-> <<>>]
    /\ selectedSecond = NoKey
    /\ isGroupSelectionActive = FALSE
    /\ syncScroll = FALSE
    /\ scrollSyncTimer = <<>>
    /\ frames = {}
    /\ geo = NoGeometry
    /\ target = NoTargets
    /\ pageReqs = [p \in Panels |-> <<>>]
    /\ secReqs = [p \in Panels |-> <<>>]
    /\ sels = [i \in {} |-> 0]
    /\ settleQ = <<>>
    /\ restoreQ = <<>>
    /\ pc = "done"
    /\ events = 0
    /\ hist = [p \in Panels |-> <<>>]
    /\ view = [p \in Panels |-> renderLog(logs[p].visibleLines)]
    /\ highlight = [p \in Panels |-> NoKey]
    /\ currentSearch = ""
    /\ debounceTimer = <<>>
    /\ searchReqs = <<>>
    /\ searchResults = [p \in Panels |-> <<>>]
    /\ issued = NoneIssued
    /\ last = Last("initDone", NoPanel, 0, "", NoKey, TRUE, <<>>)

\* a batch of new lines is appended to the panel's buffer and folded into
\* the index
Extend(panel, batch) ==
    /\ batch # <<>>
    /\ Len(logs[panel].visibleLines) + Len(batch) <= MaxBuf
    /\ logs' = [logs EXCEPT ![panel].visibleLines = @ \o batch]
    /\ secondIndex' = updateSecondIndex(secondIndex, panel, batch)
    /\ view' = [view EXCEPT ![panel] = renderLog(logs'[panel].visibleLines)]
    /\ highlight' = [highlight EXCEPT ![panel] = NoKey]
    /\ last' = Last("extend", panel, 0, "", NoKey, TRUE, <<>>)
    /\ UNCHANGED << stats, errorPositions, pageReqs, pc, events, hist >>
    /\ UNCHANGED selVars
    /\ UNCHANGED mirrorVars
    /\ UNCHANGED searchVars

NextIndex == \E p \in Panels, batch \in SeqsUpTo(MaxBuf) : Extend(p, batch)

SpecIndex == InitIndex /\ [][NextIndex]_vars

\* C4: for any buffers, the index rebuilt by buildSecondIndex and then
\* extended by updateSecondIndex for each batch appended since equals
\* buildSecondIndex of the buffers that result.
C4_IndexConvergence ==
    secondIndex = buildSecondIndex(logs)

\* a batch was folded into an index entry that already held a line of the
\* same panel, under a key that another panel has too
C4_Witness ==
    /\ last.op = "extend"
    /\ \E k \in DOMAIN secondIndex :
         /\ last.panel \in DOMAIN secondIndex[k]
         /\ Len(secondIndex[k][last.panel]) >= 2
         /\ Cardinality(DOMAIN secondIndex[k]) >= 2

\* C4 on the viewer's own steps: whenever the index equals the rebuild and a
\* fetched batch is appended to a buffer, the extended index equals the
\* rebuild of the resulting buffers.
C4_AppendStepConverges ==
    [][\A p \in Panels :
         (AppendsBatch(p) /\ secondIndex = buildSecondIndex(logs))
           => secondIndex' = buildSecondIndex(logs')]_vars

\* C5: a successful offset-0 page becomes the whole buffer and currentOffset
\* is 0 afterwards, whatever the buffer held; a successful page with another
\* offset is appended to the end of the buffer.
C5_ReplaceOrAppend ==
    [][\A p \in Panels :
         (last'.op = "page" /\ last'.panel = p /\ last'.ok) =>
           LET page == ServerPage(p, last'.offset, linesPerPage, last'.search)
           IN  IF last'.offset = 0
               THEN /\ logs'[p].visibleLines = page
                    /\ logs'[p].currentOffset = 0
               ELSE logs'[p].visibleLines = logs[p].visibleLines \o page]_vars

\* a filtered offset-0 reload has replaced a bt buffer that held line 2
\* (still in the index, not matched by the filter)
C5_Witness ==
    /\ last.op = "page" /\ last.ok /\ last.offset = 0
    /\ last.panel = "bt" /\ last.search = "a"
    /\ logs["bt"].visibleLines = last.batch
    /\ Len(last.batch) > 0
    /\ IndexCount("t2", "bt", Stream("bt")[2]) > 0

RECURSIVE ConcatLines(_)
ConcatLines(h) == IF h = <<>> THEN <<>> ELSE Head(h).lines \o ConcatLines(Tail(h))

PagesOnly(h) == \A i \in 1..Len(h) : h[i].kind = "page"

Increasing(h) == \A i \in 1..(Len(h) - 1) : h[i].offset < h[i + 1].offset

\* C6 as stated: for every run of successful page loads with strictly
\* increasing offsets (whatever its first offset) the buffer is the
\* concatenation of the run's pages and currentOffset is the run's first
\* offset.
C6_AnyRun ==
    \A p \in Panels : \A i \in 1..Len(hist[p]) :
        LET r == SubSeq(hist[p], i, Len(hist[p]))
        IN  (PagesOnly(r) /\ Increasing(r)) =>
              /\ logs[p].visibleLines = ConcatLines(r)
              /\ logs[p].currentOffset = r[1].offset

\* C6 amended: for a run that starts with an offset-0 page and continues
\* with strictly increasing offsets, no targeted-second append in between,
\* the buffer is the concatenation of the pages and currentOffset is 0.
C6_RunFromZero ==
    \A p \in Panels :
        LET h == hist[p]
        IN  (h # <<>> /\ PagesOnly(h) /\ Increasing(h) /\ h[1].offset = 0) =>
              /\ logs[p].visibleLines = ConcatLines(h)
              /\ logs[p].currentOffset = 0

\* bt holds its offset-0 page followed by the page of a later offset
C6_Witness ==
    /\ Len(hist["bt"]) = 2
    /\ PagesOnly(hist["bt"]) /\ Increasing(hist["bt"])
    /\ hist["bt"][1].offset = 0
    /\ Len(hist["bt"][2].lines) > 0
    /\ last.op = "page" /\ last.panel = "bt" /\ last.ok

\* C7: a failed page fetch of panel p leaves p's lines, currentOffset and
\* totalLines, the second index, the error positions and everything of the
\* other panels as they were.
C7_FailureIsolated ==
    [][\A p \in Panels :
         (last'.op = "page" /\ last'.panel = p /\ ~last'.ok) =>
           /\ logs'[p].visibleLines = logs[p].visibleLines
           /\ logs'[p].currentOffset = logs[p].currentOffset
           /\ logs'[p].totalLines = logs[p].totalLines
           /\ secondIndex' = secondIndex
           /\ errorPositions' = errorPositions
           /\ secReqs' = secReqs
           /\ \A q \in Panels \ {p} :
                logs'[q] = logs[q] /\ pageReqs'[q] = pageReqs[q]]_vars

\* a page fetch failed on a panel that holds lines
C7_Witness ==
    /\ last.op = "page" /\ ~last.ok
    /\ Len(logs[last.panel].visibleLines) > 0
    /\ ~logs[last.panel].loading

\* C8: a selection sends no targeted request for, and changes nothing of, a
\* panel that already holds a line of the selected second.
C8_LoadedSecondIsNoOp ==
    [][\A p \in Panels :
         (last'.op = "select" /\ HasSecond(logs[p].visibleLines, last'.second)) =>
           /\ secReqs'[p] = secReqs[p]
           /\ logs'[p] = logs[p]
           /\ pageReqs'[p] = pageReqs[p]
           /\ secondIndex' = secondIndex
           /\ errorPositions' = errorPositions]_vars

\* a selection whose key is loaded in one panel (no request there) and
\* missing in another (request sent)
C8_Witness ==
    /\ last.op = "select"
    /\ \E p \in Panels :
         HasSecond(logs[p].visibleLines, last.second) /\ secReqs[p] = <<>>
    /\ \E q \in Panels :
         ~HasSecond(logs[q].visibleLines, last.second) /\ Len(secReqs[q]) = 1

\* C9: once initialization is over, errorPositions[panel] has at most one
\* entry per error/warning line.
C9_NoDoubleCount ==
    pc = "done" =>
      \A p \in Panels : \A i, j \in 1..Len(errorPositions[p]) :
          errorPositions[p][i].lineNumber = errorPositions[p][j].lineNumber => i = j

\* C10: the entries added by updateErrorPositionsFromNewContent when a batch
\* is appended are the entries detectErrorsFromLoadedContent computes for
\* those lines on the resulting buffer (offset = currentOffset + index in
\* the buffer).
C10_OffsetsAbsolute ==
    [][\A p \in Panels :
         AppendsBatch(p) =>
           LET old == Len(logs[p].visibleLines)
               added == SubSeq(errorPositions'[p], Len(errorPositions[p]) + 1,
                               Len(errorPositions'[p]))
               full == ErrScan(logs'[p].visibleLines, 1, logs'[p].currentOffset)
               expected == SelectSeq(full,
                             LAMBDA e : e.offset >= logs'[p].currentOffset + old)
           IN  added = expected]_vars

\* the buffer of panel p was filled by unfiltered page loads only, from
\* offset 0 upwards, with the totals of /api/stats known
PaginationOnly(p) ==
    /\ stats
    /\ hist[p] # <<>>
    /\ PagesOnly(hist[p]) /\ Increasing(hist[p])
    /\ \A i \in 1..Len(hist[p]) : hist[p][i].search = ""

\* C11: a near-bottom scroll of a panel with lines remaining
\* (currentOffset + n < totalLines) and no page fetch in flight sends exactly
\* one page request, for offset currentOffset + n; any other scroll event
\* (a fetch still in flight, nothing remaining, not near the bottom) sends
\* none; and a buffer filled by pagination alone is a prefix of the stream
\* with currentOffset + n <= totalLines, the stream being exhausted exactly
\* when totalLines = currentOffset + n.
C11_ScrollPagination ==
    /\ [][\A p \in Panels :
            (last'.op = "scroll" /\ last'.panel = p) =>
              LET n == Len(logs[p].visibleLines)
                  newOffset == logs[p].currentOffset + n
              IN  /\ \A q \in Panels \ {p} : pageReqs'[q] = pageReqs[q]
                  /\ IF last'.ok /\ newOffset < logs[p].totalLines /\ pageReqs[p] = <<>>
                     THEN pageReqs'[p] = << [offset |-> newOffset, search |-> "",
                                             init |-> FALSE] >>
                     ELSE pageReqs'[p] = pageReqs[p]]_vars
    /\ [](\A p \in Panels :
            PaginationOnly(p) =>
              LET n == Len(logs[p].visibleLines)
              IN  /\ logs[p].visibleLines = SubSeq(Stream(p), 1, n)
                  /\ logs[p].currentOffset + n <= logs[p].totalLines
                  /\ (n = Len(Stream(p)))
                       <=> (logs[p].currentOffset + n = logs[p].totalLines))

\* bt was paged to its end by one scroll request after the initial page, and
\* the near-bottom scroll that followed found nothing left to request
C11_Witness ==
    /\ last.op = "scroll" /\ last.panel = "bt" /\ last.ok
    /\ PaginationOnly("bt")
    /\ Len(hist["bt"]) = 2
    /\ hist["bt"][2].offset = linesPerPage
    /\ logs["bt"].visibleLines = Stream("bt")
    /\ logs["bt"].currentOffset + Len(logs["bt"].visibleLines) = logs["bt"].totalLines
    /\ pageReqs["bt"] = <<>>

\* C12: all line ids in a panel's buffer are pairwise distinct.
C12_NoDuplicateLines ==
    \A p \in Panels : \A i, j \in 1..Len(logs[p].visibleLines) :
        logs[p].visibleLines[i].id = logs[p].visibleLines[j].id => i = j

\* the lines of a panel's buffer that page loads put there, in buffer order
PageLoaded(p) ==
    ConcatLines(SelectSeq(hist[p], LAMBDA e : e.kind = "page"))

\* the stream a panel's offset-0 page was taken from: the backend's stream
\* under the search term of that request
PagedStream(p) ==
    LET pages == SelectSeq(hist[p], LAMBDA e : e.kind = "page")
    IN  SelectSeq(Stream(p), LAMBDA l : Matches(l, IF pages = <<>> THEN ""
                                                    ELSE pages[1].search))

\* C13: the page-loaded lines of a panel's buffer are the gap-free run
\* [currentOffset, currentOffset + k) of the stream, also when
\* targeted-second appends lie between the page loads.
C13_PagesContiguous ==
    \A p \in Panels :
        LET k == Len(PageLoaded(p))
        IN  /\ logs[p].currentOffset + k <= Len(PagedStream(p))
            /\ PageLoaded(p) = SubSeq(PagedStream(p), logs[p].currentOffset + 1,
                                      logs[p].currentOffset + k)

\* C14: while the jump to the selected second is in progress (from its
\* selectSecond until its 1000 ms timer has run), a scroll event on any
\* panel leaves selectedSecond as it is, also when selections overlap.
C14_ScrollKeepsSelectionInTransit ==
    [][(/\ last'.op = "scroll"
        /\ \E id \in DOMAIN sels : sels[id].second = selectedSecond) =>
         selectedSecond' = selectedSecond]_vars

\* C15: a scroll event on any panel that finds a selected second and no
\* transition in flight sets selectedSecond to none.
C15_ManualScrollClears ==
    [][(last'.op = "scroll" /\ selectedSecond # NoKey /\ ~isGroupSelectionActive) =>
         selectedSecond' = NoKey]_vars

\* a scroll event found a second selected whose transition was over, and
\* cleared it
C15_Witness ==
    /\ last.op = "scroll"
    /\ last.second # NoKey
    /\ DOMAIN sels = {}
    /\ selectedSecond = NoKey

\* C16: when the 1000 ms timer of a selection has run, and the sync-scroll
\* button was not clicked since that selection (or a selection it overlaps
\* with) began, syncScroll is what the user had set, also when the timers
\* of selections overlap.
C16_SyncScrollRestored ==
    [][\A id \in DOMAIN sels :
         (last'.op = "restore" /\ id \notin DOMAIN sels' /\ ~sels[id].toggled) =>
           syncScroll' = sels[id].userSync]_vars

\* C17: once the targeted fetches of a selection are answered, the
\* transition flag is eventually released, and a released flag is raised
\* again by nothing but the next selection.
C17_FlagReleased ==
    /\ [](isGroupSelectionActive => <>(~isGroupSelectionActive))
    /\ [][(~isGroupSelectionActive /\ isGroupSelectionActive') =>
            last'.op = "select"]_vars

\* the 1000 ms timer of a selection that had to fetch lines has run: the
\* flag is down, the second still selected
C17_Witness ==
    /\ last.op = "restore"
    /\ ~isGroupSelectionActive
    /\ DOMAIN sels = {}
    /\ selectedSecond = last.second
    /\ \E p \in Panels : \E i \in 1..Len(hist[p]) : hist[p][i].kind = "second"

\* the targeted-second requests of selection id that are still outstanding
Outstanding(id) ==
    { p \in Panels : \E i \in 1..Len(secReqs[p]) : secReqs[p][i].sel = id }

\* C18: a selection sends, in the one task that starts it, the targeted
\* request of every panel that lacks the second (none is held back until
\* another has answered), and its centering scroll starts only when none of
\* its requests is outstanding any more, however each of them ended.
C18_FanOutFanIn ==
    /\ [][last'.op = "select" =>
            \E id \in (DOMAIN sels') \ (DOMAIN sels) :
              \A p \in Panels :
                secReqs'[p] = IF HasSecond(logs[p].visibleLines, last'.second)
                              THEN secReqs[p]
                              ELSE Append(secReqs[p], [second |-> last'.second,
                                                       sel |-> id])]_vars
    /\ [][last'.op = "settle" => Outstanding(Head(settleQ)) = {}]_vars
    /\ [](\A id \in DOMAIN sels :
            sels[id].phase # "fetch" => Outstanding(id) = {})

\* the centering scroll of a selection of t1 has started: bt held the
\* second, out and rs were both asked and both have answered
C18_Witness ==
    /\ last.op = "settle" /\ last.second = "t1"
    /\ HasSecond(logs["bt"].visibleLines, "t1")
    /\ ~HasSecond(logs["out"].visibleLines, "t1")
    /\ ~HasSecond(logs["rs"].visibleLines, "t1")
    /\ \A p \in Panels : secReqs[p] = <<>>

\* C19: no mirrored scroll position is written to a panel while a
\* selection is in progress (from selectSecond until its 1000 ms timer has
\* run), whenever the write was scheduled.
C19_NoMirrorDuringJump ==
    [][last'.op = "frame" => DOMAIN sels = {}]_vars

(***************************************************************************)
(* Scroll mirroring on concrete geometry: the panels have any geometry of  *)
(* Geometries (heights do not change here), sync-scroll is on or off, and  *)
(* the mirroring pipeline runs on it: throttleScrollSync for a scroll      *)
(* event, syncScrollPosition when the timer fires, and the scrollTop       *)
(* assignments in the animation frame.  Every such assignment causes a     *)
(* scroll event of its own, which ArmSync covers.                          *)
(***************************************************************************)
InitSync ==
    /\ logs = [p \in Panels |->
                 [visibleLines |-> ServerPage(p, 0, linesPerPage, ""), currentOffset |-> 0,
                  totalLines |-> ServerTotal(p), loading |-> FALSE]]
    /\ stats = TRUE
    /\ secondIndex = buildSecondIndex(logs)
    /\ errorPositions = [p \in Panels |-> ErrScan(logs[p].visibleLines, 1, 0)]
    /\ selectedSecond = NoKey
    /\ isGroupSelectionActive = FALSE
    /\ syncScroll \in BOOLEAN
    /\ scrollSyncTimer = <<>>
    /\ frames = {}
    /\ geo \in Geometries
    /\ target = NoTargets
    /\ pageReqs = [p \in Panels |-> <<>>]
    /\ secReqs = [p \in Panels |-> <<>>]
    /\ sels = [i \in {} |-> 0]
    /\ settleQ = <<>>
    /\ restoreQ = <<>>
    /\ pc = "done"
    /\ events = 0
    /\ hist = [p \in Panels |->
                 << [kind |-> "page", offset |-> 0, search |-> "",
                     lines |-> logs[p].visibleLines] >>]
    /\ view = [p \in Panels |-> renderLog(logs[p].visibleLines)]
    /\ highlight = [p \in Panels |-> NoKey]
    /\ currentSearch = ""
    /\ debounceTimer = <<>>
    /\ searchReqs = <<>>
    /\ searchResults = [p \in Panels |-> <<>>]
    /\ issued = NoneIssued
    /\ last = Last("initDone", NoPanel, 0, "", NoKey, TRUE, <<>>)

mainVars == << logs, stats, secondIndex, errorPositions, pageReqs, pc, events, hist >>

\* a scroll event of a panel that is not near its bottom: handleScroll arms
\* the mirroring timer
ArmSync(panel) ==
    /\ scrollSyncTimer' = throttleScrollSync(scrollSyncTimer, syncScroll, panel)
    /\ last' = Last("scroll", panel, 0, "", NoKey, FALSE, <<>>)
    /\ UNCHANGED << frames, geo, target >>
    /\ UNCHANGED mainVars
    /\ UNCHANGED selVars
    /\ UNCHANGED << domVars, searchVars >>

\* the 16 ms timer: syncScrollPosition on the panels' geometry
MirrorCompute ==
    /\ scrollSyncTimer # <<>>
    /\ LET W == syncScrollPosition(geo, Head(scrollSyncTimer), syncScroll, isGroupSelectionActive)
       IN  /\ frames' = frames \cup { w.panel : w \in W }
           /\ target' = [q \in Panels |->
                           IF \E w \in W : w.panel = q
                           THEN LET w == CHOOSE w \in W : w.panel = q
                                IN  [num |-> w.num, den |-> w.den, src |-> w.src]
                           ELSE target[q]]
    /\ scrollSyncTimer' = Tail(scrollSyncTimer)
    /\ last' = Last("sync", Head(scrollSyncTimer), 0, "", NoKey, TRUE, <<>>)
    /\ UNCHANGED geo
    /\ UNCHANGED mainVars
    /\ UNCHANGED selVars
    /\ UNCHANGED << domVars, searchVars >>

\* element.scrollTop = targetScrollTop for the fraction t on a panel of
\* geometry g: the value is clamped to the scroll range and kept in whole
\* pixels, rounded down or up as the browser does
StoredScrollTop(t, up, g) ==
    LET v == IF up THEN 0 - ((0 - t.num) \div t.den) ELSE t.num \div t.den
    IN  Max(0, Min(v, Max(0, ScrollRange(g))))

\* the animation frame: every waiting callback assigns its targetScrollTop
MirrorWrite ==
    /\ frames # {}
    /\ \E up \in SUBSET frames :
         geo' = [q \in Panels |->
                   IF q \in frames
                   THEN [geo[q] EXCEPT !.scrollTop = StoredScrollTop(target[q], q \in up, geo[q])]
                   ELSE geo[q]]
    /\ frames' = {}
    /\ last' = Last("frame", NoPanel, 0, "", NoKey, TRUE, <<>>)
    /\ UNCHANGED << scrollSyncTimer, target >>
    /\ UNCHANGED mainVars
    /\ UNCHANGED selVars
    /\ UNCHANGED << domVars, searchVars >>

NextSync ==
    \/ \E p \in Panels : ArmSync(p)
    \/ MirrorCompute
    \/ MirrorWrite

SpecSync == InitSync /\ [][NextSync]_vars

\* scrollTop top is within 1 px of (n / d) times the scroll range r
Within1(top, n, d, r) == Abs(top * d - n * r) <= d

\* C20: with sync-scroll on and no transition active, when the position
\* n / max(1, range) of the scrolled panel P has been propagated (the timer
\* has computed the targets and the frame has written them, no older write
\* pending), every other panel whose range is positive is within 1 px of
\* that fraction of its own range: the panels the timer left alone already
\* are when it runs, all of them are after the frame.
C20_PercentageSync ==
    /\ [][(last'.op = "sync" /\ syncScroll /\ ~isGroupSelectionActive) =>
            LET P == last'.panel
            IN  \A q \in Panels \ {P} :
                  (ScrollRange(geo[q]) > 0 /\ q \notin frames') =>
                    Within1(geo[q].scrollTop, geo[P].scrollTop,
                            Max(1, ScrollRange(geo[P])), ScrollRange(geo[q]))]_vars
    /\ [][(/\ last'.op = "frame" /\ last.op = "sync"
           /\ syncScroll /\ ~isGroupSelectionActive
           /\ \A q \in frames :
                 target[q] = [num |-> geo[last.panel].scrollTop * ScrollRange(geo[q]),
                              den |-> Max(1, ScrollRange(geo[last.panel])),
                              src |-> last.panel]) =>
            \A q \in Panels \ {last.panel} :
              ScrollRange(geo[q]) > 0 =>
                Within1(geo'[q].scrollTop, geo[last.panel].scrollTop,
                        Max(1, ScrollRange(geo[last.panel])), ScrollRange(geo[q]))]_vars

\* a frame has written a target that is not a whole pixel to a panel whose
\* range differs from the range of the panel that was scrolled
C20_Witness ==
    /\ last.op = "frame"
    /\ syncScroll
    /\ \E q \in Panels :
         /\ target[q].src # NoPanel
         /\ target[q].num % target[q].den # 0
         /\ ScrollRange(geo[q]) > 0
         /\ ScrollRange(geo[q]) # ScrollRange(geo[target[q].src])
         /\ geo[q].scrollTop \in { target[q].num \div target[q].den,
                                   (target[q].num \div target[q].den) + 1 }

----------------------------------------------------------------------------
(* Grouped rendering on arbitrary buffers *)

(***************************************************************************)
(* renderLog applied to any buffer of up to MaxRender lines drawn from     *)
(* RenderUniverse: two lines of t1, one of t2, one of t3 and one without   *)
(* secondKey, in any order and with repetitions.                           *)
(***************************************************************************)
MaxRender == 4

RenderUniverse == { Line(1, 1, "t1", "normal", "a"),
                    Line(2, 2, "t1", "error", "b"),
                    Line(3, 3, "t2", "normal", "a"),
                    Line(4, 4, "t3", "warning", "a"),
                    Line(5, 5, NoKey, "normal", "b") }

InitRender ==
    /\ \E q \in Panels, b \in UNION { [1..m -> RenderUniverse] : m \in 0..MaxRender } :
         logs = [p \in Panels |->
                   [visibleLines |-> IF p = q THEN b ELSE << >>, currentOffset |-> 0,
                    totalLines |-> 0, loading |-> FALSE]]
    /\ stats = FALSE
    /\ secondIndex = buildSecondIndex(logs)
    /\ errorPositions = [p \in Panels |-> ErrScan(logs[p].visibleLines, 1, 0)]
    /\ selectedSecond = NoKey
    /\ isGroupSelectionActive = FALSE
    /\ syncScroll = FALSE
    /\ scrollSyncTimer = <<>>
    /\ frames = {}
    /\ geo = NoGeometry
    /\ target = NoTargets
    /\ pageReqs = [p \in Panels |-> <<>>]
    /\ secReqs = [p \in Panels |-> <<>>]
    /\ sels = [i \in {} |-> 0]
    /\ settleQ = <<>>
    /\ restoreQ = <<>>
    /\ pc = "done"
    /\ events = 0
    /\ hist = [p \in Panels |-> <<>>]
    /\ view = [p \in Panels |-> EmptyView]
    /\ highlight = [p \in Panels |-> NoKey]
    /\ currentSearch = ""
    /\ debounceTimer = <<>>
    /\ searchReqs = <<>>
    /\ searchResults = [p \in Panels |-> <<>>]
    /\ issued = NoneIssued
    /\ last = Last("initDone", NoPanel, 0, "", NoKey, TRUE, <<>>)

\* renderLog(panel) with groupBySecond on: the element is emptied and gets
\* the groups of the buffer
Render(panel) ==
    /\ view[panel] = EmptyView
    /\ view' = [view EXCEPT ![panel] = renderLog(logs[panel].visibleLines)]
    /\ highlight' = [highlight EXCEPT ![panel] = NoKey]
    /\ last' = Last("render", panel, 0, "", NoKey, TRUE, <<>>)
    /\ UNCHANGED mainVars
    /\ UNCHANGED selVars
    /\ UNCHANGED mirrorVars
    /\ UNCHANGED searchVars

NextRender == \E p \in Panels : Render(p)

SpecRender == InitRender /\ [][NextRender]_vars

\* the lines of a buffer that carry the key, in buffer order
LinesOf(lines, key) == SelectSeq(lines, LAMBDA l : l.secondKey = key)

\* C21: the groups rendered for a buffer are exactly the secondKeys of its
\* lines (a line without secondKey is in no group), in strictly ascending
\* key order whatever the order of the buffer; each group reports the number
\* of the buffer's lines with its key and holds those lines in buffer order.
C21_GroupedRendering ==
    \A p \in Panels :
      view[p].kind = "groups" =>
        LET G == view[p].groups
            B == logs[p].visibleLines
        IN  /\ { G[i].secondKey : i \in 1..Len(G) } = { B[j].secondKey : j \in 1..Len(B) } \ {NoKey}
            /\ \A i, j \in 1..Len(G) : i < j => KeyLess(G[i].secondKey, G[j].secondKey)
            /\ \A i \in 1..Len(G) :
                 /\ G[i].events = LinesOf(B, G[i].secondKey)
                 /\ G[i].count = Cardinality({ j \in 1..Len(B) : B[j].secondKey = G[i].secondKey })

\* the buffer with keys t2, t1, t1, t3 was rendered as t1 with 2 events, t2
\* with 1 and t3 with 1
C21_Witness ==
    \E p \in Panels :
      /\ view[p].kind = "groups"
      /\ [j \in 1..Len(logs[p].visibleLines) |-> logs[p].visibleLines[j].secondKey]
           = << "t2", "t1", "t1", "t3" >>
      /\ [i \in 1..Len(view[p].groups) |->
            << view[p].groups[i].secondKey, view[p].groups[i].count >>]
           = << << "t1", 2 >>, << "t2", 1 >>, << "t3", 1 >> >>

----------------------------------------------------------------------------
(* Initialization and failures *)

\* the stats request or an initial page load has failed: user events begin
\* after initializeViewer, so until then `events` counts failed fetches only
InitFetchFailed == pc = "pages" /\ events > 0

\* C22: when the stats request or one of the three initial page loads has
\* failed, initializeViewer does not go on to the index build and the error
\* detection and finish as after a successful load.
C22_InitFailureSurfaced ==
    [][InitFetchFailed => pc' # "done"]_vars

----------------------------------------------------------------------------
(* Selection scenario with the panel elements *)

\* C23, requests: a selection of k sends a targeted request for k from
\* exactly the panels whose buffer holds no line of k.
C23_RequestsWhereMissing ==
    [][last'.op = "select" =>
         \A p \in Panels :
           IF HasSecond(logs[p].visibleLines, last'.second)
           THEN secReqs'[p] = secReqs[p]
           ELSE /\ Len(secReqs'[p]) = Len(secReqs[p]) + 1
                /\ secReqs'[p][Len(secReqs'[p])].second = last'.second
                /\ SubSeq(secReqs'[p], 1, Len(secReqs[p])) = secReqs[p]]_vars

\* no targeted request for the key is outstanding
SettledFor(k) == \A p \in Panels : \A i \in 1..Len(secReqs[p]) : secReqs[p][i].second # k

\* C23: while k is selected, once the targeted requests for k have settled
\* and every panel holds lines of k, the elements rendered for k carry the
\* selected highlight in every panel.
C23_SelectionHighlighted ==
    \A k \in Keys :
      (/\ selectedSecond = k
       /\ SettledFor(k)
       /\ \A p \in Panels : HasSecond(logs[p].visibleLines, k))
      => \A p \in Panels : Rendered(view[p], k) => highlight[p] = k

\* C24: a targeted-second fetch of panel P that fails changes neither the
\* selection nor any buffer, the second index or the error positions; the
\* targeted requests of the other panels stay in flight; and the selection
\* goes on: its call for P counts as finished, and when it was the last one
\* outstanding the timer of the scroll step is scheduled.
C24_FailedSecondIsolated ==
    [][(last'.op = "second" /\ ~last'.ok) =>
         LET P == last'.panel
         IN  /\ selectedSecond' = selectedSecond
             /\ logs' = logs
             /\ secondIndex' = secondIndex
             /\ errorPositions' = errorPositions
             /\ \A q \in Panels \ {P} : secReqs'[q] = secReqs[q]
             /\ \E i \in 1..Len(secReqs[P]) :
                  LET id == secReqs[P][i].sel
                  IN  /\ secReqs'[P] = RemoveAt(secReqs[P], i)
                      /\ secReqs[P][i].second = last'.second
                      /\ id \in DOMAIN sels'
                      /\ sels'[id].waiting = sels[id].waiting \ {P}
                      /\ IF sels'[id].waiting = {}
                         THEN sels'[id].phase = "settle" /\ settleQ' = Append(settleQ, id)
                         ELSE sels'[id].phase = "fetch" /\ settleQ' = settleQ]_vars

\* the targeted fetches of one selection failed in one panel and delivered
\* lines in another, and the selection has reached its scroll timer
C24_Witness ==
    /\ last.op = "second"
    /\ ~last.ok
    /\ selectedSecond = last.second
    /\ \E id \in DOMAIN sels :
         /\ sels[id].second = last.second
         /\ sels[id].phase = "settle"
         /\ id \in Range(settleQ)
    /\ \E p \in Panels \ {last.panel} :
         \E j \in 1..Len(hist[p]) : hist[p][j].kind = "second"

\* the tasks that a user event starts
UserOps == { "scroll", "clearSearch", "panelSearch", "select", "escape", "toggleSync" }

Outstanding2(PQ, SQ) ==
    Len(PQ["bt"]) + Len(PQ["out"]) + Len(PQ["rs"]) + Len(SQ["bt"]) + Len(SQ["out"]) + Len(SQ["rs"])

----------------------------------------------------------------------------
(* Timers *)

\* C26: at most one throttle callback is pending at any time, and a scroll
\* event that arrives while one is pending schedules nothing: all scroll
\* events of one throttle window result in one syncScrollPosition call.
C26_ScrollSyncThrottle ==
    /\ [](Len(scrollSyncTimer) <= 1)
    /\ [][(last'.op = "scroll" /\ scrollSyncTimer # <<>>) =>
            scrollSyncTimer' = scrollSyncTimer]_vars
    /\ [][last'.op = "sync" => (Len(scrollSyncTimer) = 1 /\ scrollSyncTimer' = <<>>)]_vars

\* a scroll event of another panel arrived while the timer was pending
C26_Witness ==
    /\ last.op = "scroll"
    /\ syncScroll
    /\ scrollSyncTimer # <<>>
    /\ Head(scrollSyncTimer) # last.panel

----------------------------------------------------------------------------
(* Search inputs and their debounce timer *)

(***************************************************************************)
(* The search inputs with the 300 ms timer they share, on the loaded       *)
(* viewer: an input event of the global field or of a panel field, the     *)
(* timer task (performGlobalSearch or performPanelSearch), and the         *)
(* /api/search and page fetches they send.                                 *)
(***************************************************************************)
InputTerms == { "", "a", "b" }

\* GET /api/search?q: per stream the ids of the matching lines
ServerSearch(q) ==
    [p \in Panels |->
       LET f == SelectSeq(Stream(p), LAMBDA l : Matches(l, q))
       IN  [i \in 1..Len(f) |-> f[i].id]]

GlobalCallback == [kind |-> "global", panel |-> NoPanel, term |-> ""]
PanelCallback(panel, term) == [kind |-> "panel", panel |-> panel, term |-> term]

\* a debounce that leaves the pending timer running
debounce_NoClear(timer, callback) == Append(timer, callback)

\* debounceSearch / debouncePanelSearch: clearTimeout(this.debounceTimer)
\* drops the pending callback, setTimeout schedules the new one
debounce(timer, callback) == << callback >>

InitSearch ==
    /\ logs = [p \in Panels |->
                 [visibleLines |-> ServerPage(p, 0, linesPerPage, ""), currentOffset |-> 0,
                  totalLines |-> ServerTotal(p), loading |-> FALSE]]
    /\ stats = TRUE
    /\ secondIndex = buildSecondIndex(logs)
    /\ errorPositions = [p \in Panels |-> ErrScan(logs[p].visibleLines, 1, 0)]
    /\ selectedSecond = NoKey
    /\ isGroupSelectionActive = FALSE
    /\ syncScroll = FALSE
    /\ scrollSyncTimer = <<>>
    /\ frames = {}
    /\ geo = NoGeometry
    /\ target = NoTargets
    /\ pageReqs = [p \in Panels |-> <<>>]
    /\ secReqs = [p \in Panels |-> <<>>]
    /\ sels = [i \in {} |-> 0]
    /\ settleQ = <<>>
    /\ restoreQ = <<>>
    /\ pc = "done"
    /\ events = 0
    /\ hist = [p \in Panels |->
                 << [kind |-> "page", offset |-> 0, search |-> "",
                     lines |-> logs[p].visibleLines] >>]
    /\ view = [p \in Panels |-> renderLog(logs[p].visibleLines)]
    /\ highlight = [p \in Panels |-> NoKey]
    /\ currentSearch = ""
    /\ debounceTimer = <<>>
    /\ searchReqs = <<>>
    /\ searchResults = [p \in Panels |-> <<>>]
    /\ issued = NoneIssued
    /\ last = Last("initDone", NoPanel, 0, "", NoKey, TRUE, <<>>)

\* input event of the global search field
GlobalInput(term) ==
    /\ CanAct
    /\ events' = events + 1
    /\ currentSearch' = term
    /\ debounceTimer' = debounce(debounceTimer, GlobalCallback)
    /\ last' = Last("globalInput", NoPanel, 0, term, NoKey, TRUE, <<>>)
    /\ UNCHANGED << logs, stats, secondIndex, errorPositions, pageReqs, pc, hist >>
    /\ UNCHANGED << searchReqs, searchResults, issued >>
    /\ UNCHANGED selVars
    /\ UNCHANGED mirrorVars
    /\ UNCHANGED domVars

\* input event of a panel search field
PanelInput(panel, term) ==
    /\ CanAct
    /\ events' = events + 1
    /\ debounceTimer' = debounce(debounceTimer, PanelCallback(panel, term))
    /\ last' = Last("panelInput", panel, 0, term, NoKey, TRUE, <<>>)
    /\ UNCHANGED << logs, stats, secondIndex, errorPositions, pageReqs, pc, hist >>
    /\ UNCHANGED << currentSearch, searchReqs, searchResults, issued >>
    /\ UNCHANGED selVars
    /\ UNCHANGED mirrorVars
    /\ UNCHANGED domVars

\* the 300 ms timer: performGlobalSearch on this.currentSearch (a blank term
\* sends nothing), or performPanelSearch on the panel and term of the input
DebounceFire ==
    /\ debounceTimer # <<>>
    /\ LET cb == Head(debounceTimer)
       IN  IF cb.kind = "global"
           THEN /\ searchReqs' = IF currentSearch = "" THEN searchReqs
                                 ELSE Append(searchReqs, currentSearch)
                /\ issued' = IF currentSearch = "" THEN issued
                             ELSE [issued EXCEPT !.term = currentSearch]
                /\ last' = Last("globalSearch", NoPanel, 0, currentSearch, NoKey, TRUE, <<>>)
                /\ UNCHANGED << logs, pageReqs >>
           ELSE /\ LET S == performPanelSearch(Cur, cb.panel, cb.term)
                   IN  logs' = S.logs /\ pageReqs' = S.pageReqs
                /\ last' = Last("panelSearch", cb.panel, 0, cb.term, NoKey, TRUE, <<>>)
                /\ UNCHANGED << searchReqs, issued >>
    /\ debounceTimer' = Tail(debounceTimer)
    /\ UNCHANGED << stats, secondIndex, errorPositions, pc, events, hist >>
    /\ UNCHANGED << currentSearch, searchResults >>
    /\ UNCHANGED selVars
    /\ UNCHANGED mirrorVars
    /\ UNCHANGED domVars

\* performGlobalSearch after its fetch settled: the matches of every panel
\* are stored; a failure is logged and changes nothing
SearchArrive(i, ok) ==
    /\ i \in 1..Len(searchReqs)
    /\ (ok \/ events < MaxEvents)
    /\ events' = IF ok THEN events ELSE events + 1
    /\ searchReqs' = Done(searchReqs, i, ok)
    /\ searchResults' = IF ok THEN ServerSearch(searchReqs[i]) ELSE searchResults
    /\ issued' = IF ok THEN issued ELSE [issued EXCEPT !.failed = TRUE]
    /\ last' = Last("search", NoPanel, 0, searchReqs[i], NoKey, ok, <<>>)
    /\ UNCHANGED << logs, stats, secondIndex, errorPositions, pageReqs, pc, hist >>
    /\ UNCHANGED << currentSearch, debounceTimer >>
    /\ UNCHANGED selVars
    /\ UNCHANGED mirrorVars
    /\ UNCHANGED domVars

NextSearch ==
    \/ \E term \in InputTerms : GlobalInput(term)
    \/ \E p \in Panels, term \in InputTerms : PanelInput(p, term)
    \/ DebounceFire
    \/ \E i \in 1..MaxEvents, ok \in BOOLEAN : SearchArrive(i, ok)
    \/ \E p \in Panels : \E i \in DOMAIN pageReqs[p], ok \in BOOLEAN : PageArriveDom(p, i, ok)

SpecSearch == InitSearch /\ [][NextSearch]_vars

\* C27, search inputs: at most one debounce callback is pending; an input
\* event replaces the pending callback by its own; the timer task works on
\* the newest input (the current global term, or the panel and term of the
\* newest panel input).
C27_DebounceNewestWins ==
    /\ [](Len(debounceTimer) <= 1)
    /\ [][/\ last'.op = "globalInput" =>
               (debounceTimer' = << GlobalCallback >> /\ currentSearch' = last'.search)
          /\ last'.op = "panelInput" =>
               debounceTimer' = << PanelCallback(last'.panel, last'.search) >>
          /\ last'.op = "globalSearch" =>
               (Head(debounceTimer).kind = "global" /\ last'.search = currentSearch
                /\ debounceTimer' = <<>>)
          /\ last'.op = "panelSearch" =>
               (Head(debounceTimer) = PanelCallback(last'.panel, last'.search)
                /\ debounceTimer' = <<>>)]_vars

\* a search input arrived while the callback of an older input with another
\* term was pending, and the timer has then run the search for the newer one
C27_DebounceWitness ==
    /\ last.op = "panelSearch"
    /\ last.search = "b"
    /\ currentSearch = "a"
    /\ pageReqs[last.panel] # <<>>
    /\ searchReqs = <<>>

\* C27: with syncScroll on, when a scroll event is followed by the throttle
\* timer task, the propagation that runs is the one for the panel of that
\* newest scroll event.
C27_ThrottleNewestPanel ==
    [][(last.op = "scroll" /\ syncScroll /\ last'.op = "sync") =>
         last'.panel = last.panel]_vars

\* C25 for the global search: the task in which an /api/search fetch
\* settles, failed or not, sends no request and arms no timer; a search
\* request is sent only by the debounce timer task of a search input.
C25_SearchNoRetry ==
    [][/\ last'.op = "search" =>
            /\ Len(searchReqs') = Len(searchReqs) - 1
            /\ pageReqs' = pageReqs
            /\ debounceTimer' = debounceTimer
       /\ last'.op = "page" =>
            /\ searchReqs' = searchReqs
            /\ Outstanding2(pageReqs', secReqs') = Outstanding2(pageReqs, secReqs) - 1
       /\ Len(searchReqs') > Len(searchReqs) => last'.op = "globalSearch"]_vars

\* a global search has failed and nothing is outstanding or scheduled
C25_SearchWitness ==
    /\ last.op = "search"
    /\ ~last.ok
    /\ searchReqs = <<>>
    /\ debounceTimer = <<>>

----------------------------------------------------------------------------
(* Error detection on arbitrary buffers *)

(***************************************************************************)
(* detectErrorsFromLoadedContent applied, any number of times, to a panel  *)
(* whose buffer is any sequence of up to MaxBuf lines of LineUniverse (an  *)
(* error line, a normal line, a warning line; with repetitions), on error  *)
(* position lists that hold anything of PriorErrors.                       *)
(***************************************************************************)
PriorErrors ==
    LET e == [lineNumber |-> 7, level |-> "error", offset |-> 0]
        w == [lineNumber |-> 1, level |-> "error", offset |-> 0]
    IN  { << >>, << e >>, << w, w >> }

InitErrors ==
    /\ \E q \in Panels, b \in SeqsUpTo(MaxBuf) :
         logs = [p \in Panels |->
                   [visibleLines |-> IF p = q THEN b ELSE << >>, currentOffset |-> 0,
                    totalLines |-> 0, loading |-> FALSE]]
    /\ \E prior \in PriorErrors : errorPositions = [p \in Panels |-> prior]
    /\ stats = FALSE
    /\ secondIndex = buildSecondIndex(logs)
    /\ selectedSecond = NoKey
    /\ isGroupSelectionActive = FALSE
    /\ syncScroll = FALSE
    /\ scrollSyncTimer = <<>>
    /\ frames = {}
    /\ geo = NoGeometry
    /\ target = NoTargets
    /\ pageReqs = [p \in Panels |-> <<>>]
    /\ secReqs = [p \in Panels |-> <<>>]
    /\ sels = [i \in {} |-> 0]
    /\ settleQ = <<>>
    /\ restoreQ = <<>>
    /\ pc = "done"
    /\ events = 0
    /\ hist = [p \in Panels |-> <<>>]
    /\ view = [p \in Panels |-> renderLog(logs[p].visibleLines)]
    /\ highlight = [p \in Panels |-> NoKey]
    /\ currentSearch = ""
    /\ debounceTimer = <<>>
    /\ searchReqs = <<>>
    /\ searchResults = [p \in Panels |-> <<>>]
    /\ issued = NoneIssued
    /\ last = Last("initDone", NoPanel, 0, "", NoKey, TRUE, <<>>)

\* detectErrorsFromLoadedContent(panel); last.offset counts the calls made
\* in a row on the panel
Detect(panel) ==
    /\ errorPositions' = detectErrorsFromLoadedContent(errorPositions, logs, panel)
    /\ last' = Last("detect", panel,
                    IF last.op = "detect" /\ last.panel = panel THEN 2 ELSE 1,
                    "", NoKey, TRUE, <<>>)
    /\ UNCHANGED << logs, stats, secondIndex, pageReqs, pc, events, hist >>
    /\ UNCHANGED selVars
    /\ UNCHANGED mirrorVars
    /\ UNCHANGED << domVars, searchVars >>

NextErrors == \E p \in Panels : Detect(p)

SpecErrors == InitErrors /\ [][NextErrors]_vars

\* C28: on a non-empty buffer a call of detectErrorsFromLoadedContent that
\* follows another call on the same panel leaves the list as the first call
\* made it, whatever the list held before; the list then has one entry per
\* error or warning line of the buffer, in buffer order, none twice.
C28_DetectIdempotent ==
    [][\A p \in Panels :
         (last'.op = "detect" /\ last'.panel = p /\ logs[p].visibleLines # << >>) =>
           /\ (last.op = "detect" /\ last.panel = p) => errorPositions' = errorPositions
           /\ detectErrorsFromLoadedContent(errorPositions', logs, p) = errorPositions'
           /\ Len(errorPositions'[p]) =
                Cardinality({ i \in 1..Len(logs[p].visibleLines) : IsErr(logs[p].visibleLines[i]) })
           /\ \A i, j \in 1..Len(errorPositions'[p]) :
                i < j => errorPositions'[p][i].offset < errorPositions'[p][j].offset]_vars

\* the second call in a row on a buffer with two error lines, on a list
\* that held two equal entries before the first call
C28_Witness ==
    /\ last.op = "detect"
    /\ last.offset = 2
    /\ Len(errorPositions[last.panel]) = 2
    /\ \E q \in Panels \ {last.panel} :
         Len(errorPositions[q]) = 2 /\ errorPositions[q][1] = errorPositions[q][2]

----------------------------------------------------------------------------
(* Second index after initialization *)

IsPrefix(a, b) == Len(a) <= Len(b) /\ SubSeq(b, 1, Len(a)) = a

\* C29: once initializeViewer has rebuilt the index, every task keeps every
\* entry: each list secondIndex[key][panel] is a prefix of the list under
\* the same key and panel after the task.
C29_IndexAppendOnly ==
    [][pc = "done" =>
         \A k \in DOMAIN secondIndex : \A p \in DOMAIN secondIndex[k] :
           /\ k \in DOMAIN secondIndex'
           /\ p \in DOMAIN secondIndex'[k]
           /\ IsPrefix(secondIndex[k][p], secondIndex'[k][p])]_vars

\* after initialization a fetched batch was added to a list that held
\* lines already
C29_Witness ==
    /\ pc = "done"
    /\ last.op \in {"page", "second"}
    /\ last.ok
    /\ \E i \in 1..Len(last.batch) :
         LET k == last.batch[i].secondKey
         IN  /\ k \in DOMAIN secondIndex
             /\ last.panel \in DOMAIN secondIndex[k]
             /\ Len(secondIndex[k][last.panel]) >= 2

----------------------------------------------------------------------------
(* Escape *)

\* C30: Escape leaves nothing selected, the transition flag off and no
\* element highlighted, and the task that runs next, unless it is a new
\* selection, keeps it so: it highlights no key in any panel and is not the
\* scroll step of a selection towards a rendered second.
C30_EscapeClearsForGood ==
    /\ [][last'.op = "escape" =>
            /\ selectedSecond' = NoKey
            /\ ~isGroupSelectionActive'
            /\ \A p \in Panels : highlight'[p] = NoKey]_vars
    /\ [][(last.op = "escape" /\ last'.op # "select") =>
            /\ selectedSecond' = NoKey
            /\ ~isGroupSelectionActive'
            /\ \A p \in Panels : highlight'[p] = NoKey
            /\ ~(last'.op = "settle" /\ \E p \in Panels : Rendered(view[p], last'.second))]_vars

\* the highlight part of C30 alone
C30_NoHighlightAfterEscape ==
    [][(last.op = "escape" /\ last'.op # "select") =>
         \A p \in Panels : highlight'[p] = NoKey]_vars

\* the scroll part of C30 alone
C30_NoScrollAfterEscape ==
    [][(last.op = "escape" /\ last'.op # "select") =>
         ~(last'.op = "settle" /\ \E p \in Panels : Rendered(view[p], last'.second))]_vars

----------------------------------------------------------------------------
(* Loader invariants *)

\* C31: currentOffset of every panel is 0 in every state, whatever has been
\* loaded (initial page, appended page, offset-0 reload, targeted-second
\* append), so the offset a scroll event computes for the next page is the
\* length of the buffer.
C31_CurrentOffsetZero ==
    /\ \A p \in Panels : logs[p].currentOffset = 0
    /\ last.op = "scroll" => last.offset = Len(logs[last.panel].visibleLines)

\* a page of a non-zero offset has been appended to a buffer that also holds
\* a targeted-second append, and currentOffset is 0
C31_Witness ==
    /\ last.op = "page" /\ last.ok /\ last.offset > 0
    /\ Len(last.batch) > 0
    /\ \E i \in 1..Len(hist[last.panel]) : hist[last.panel][i].kind = "second"
    /\ logs[last.panel].currentOffset = 0

----------------------------------------------------------------------------
(* Selection invariants *)

\* C32: in every state between tasks, isGroupSelectionActive implies that a
\* second is selected.
C32_FlagImpliesSelection ==
    isGroupSelectionActive => selectedSecond # NoKey

\* the flag is up for a selection made while a selection of another second
\* is still running
C32_Witness ==
    /\ isGroupSelectionActive
    /\ selectedSecond # NoKey
    /\ last.op = "select"
    /\ \E id \in DOMAIN sels : sels[id].second # selectedSecond

\* A page fetch that was sent gets its answer (or its failure): the viewer
\* with every outstanding page request of every panel eventually settled
FairPages ==
    /\ Spec
    /\ \A p \in Panels : WF_vars(\E i \in 1..2, ok \in BOOLEAN : PageArrive(p, i, ok))

\* C33: the task in which a page fetch settles, successfully or not, finds
\* the panel loading and leaves it not loading with no page request
\* outstanding; a panel is never loading without a page request in flight;
\* and, page fetches settling, a panel that is loading eventually is not.
C33_LoadingReleased ==
    /\ [](\A p \in Panels : logs[p].loading => pageReqs[p] # <<>>)
    /\ [][\A p \in Panels :
            (last'.op = "page" /\ last'.panel = p) =>
              /\ logs[p].loading
              /\ ~logs'[p].loading
              /\ pageReqs'[p] = <<>>]_vars
    /\ \A p \in Panels : logs[p].loading ~> ~logs[p].loading

\* the scroll-driven load of bt's second page has failed: the flag is down
\* and lines remain, so the next near-bottom scroll loads again
C33_Witness ==
    /\ last.op = "page" /\ ~last.ok /\ last.panel = "bt" /\ last.offset > 0
    /\ ~logs["bt"].loading
    /\ pageReqs["bt"] = <<>>
    /\ logs["bt"].currentOffset + Len(logs["bt"].visibleLines) < logs["bt"].totalLines

\* C34: a scroll event on a panel with currentOffset + lines.length >=
\* totalLines sends no page request and changes nothing of the loader;
\* without the stats totalLines is 0 in every panel, so no scroll event
\* sends one; and the answer to a scroll-driven request (the only requests
\* with a non-zero offset) is never empty, so each of them brings the buffer
\* closer to totalLines.
C34_PaginationTerminates ==
    /\ [](~stats => \A p \in Panels : logs[p].totalLines = 0)
    /\ [][\A p \in Panels :
            (/\ last'.op = "scroll" /\ last'.panel = p
             /\ logs[p].currentOffset + Len(logs[p].visibleLines) >= logs[p].totalLines) =>
              (pageReqs' = pageReqs /\ logs' = logs)]_vars
    /\ [][(last'.op = "scroll" /\ ~stats) => (pageReqs' = pageReqs /\ logs' = logs)]_vars
    /\ [][\A p \in Panels :
            (last'.op = "page" /\ last'.panel = p /\ last'.ok /\ last'.offset > 0) =>
              /\ last'.offset < logs'[p].totalLines
              /\ Len(logs'[p].visibleLines) > Len(logs[p].visibleLines)]_vars

\* the stats request failed, the panels were loaded, and a near-bottom scroll
\* of a panel that shows lines has sent nothing
C34_Witness ==
    /\ last.op = "scroll" /\ last.ok
    /\ ~stats
    /\ pc = "done"
    /\ Len(logs[last.panel].visibleLines) > 0
    /\ logs[last.panel].totalLines = 0
    /\ \A p \in Panels : pageReqs[p] = <<>>

----------------------------------------------------------------------------
(* Panel search *)

\* the term of the filtered first page that the buffer of panel p was last
\* replaced with ("" when that page was unfiltered or none was loaded)
ActiveTerm(p) == IF hist[p] = << >> THEN "" ELSE hist[p][1].search

\* C35: while the buffer of a panel descends from the first page of a search
\* term and no reload is in flight, every line of the buffer matches the
\* term, and a page request that a scroll event sends for the panel carries
\* the term.
C35_SearchTermKept ==
    /\ [](\A p \in Panels :
            (ActiveTerm(p) # "" /\ pageReqs[p] = << >>) =>
              \A i \in 1..Len(logs[p].visibleLines) :
                Matches(logs[p].visibleLines[i], ActiveTerm(p)))
    /\ [][\A p \in Panels :
            (/\ last'.op = "scroll" /\ last'.panel = p
             /\ ActiveTerm(p) # ""
             /\ pageReqs[p] = << >> /\ pageReqs'[p] # << >>) =>
              pageReqs'[p][1].search = ActiveTerm(p)]_vars

\* the scroll part of C35 alone
C35_ScrollCarriesTerm ==
    [][\A p \in Panels :
         (/\ last'.op = "scroll" /\ last'.panel = p
          /\ ActiveTerm(p) # ""
          /\ pageReqs[p] = << >> /\ pageReqs'[p] # << >>) =>
           pageReqs'[p][1].search = ActiveTerm(p)]_vars

\* the buffer part of C35 alone
C35_BufferMatchesTerm ==
    \A p \in Panels :
      (ActiveTerm(p) # "" /\ pageReqs[p] = << >>) =>
        \A i \in 1..Len(logs[p].visibleLines) :
          Matches(logs[p].visibleLines[i], ActiveTerm(p))

\* C36: after clearPanelSearch(panel), or performPanelSearch(panel, term)
\* with a term, the first page of the requested data (unfiltered, or
\* filtered by the term) eventually replaces the panel's buffer, unless a
\* page fetch of the panel fails; also when a page fetch of the panel is in
\* flight at the moment of the request.
C36_SearchChangeTakesEffect ==
    \A p \in Panels, t \in SearchTerms \cup {""} :
      (/\ last.op \in {"clearSearch", "panelSearch"}
       /\ last.panel = p /\ last.search = t
       /\ last.op = "panelSearch" => t # "")
        ~> (/\ last.op = "page" /\ last.panel = p
            /\ ~last.ok \/ (last.offset = 0 /\ last.search = t))

\* C36, the request: the task of clearPanelSearch(panel) or of
\* performPanelSearch(panel, term) leaves a request for the first page of the
\* requested data in flight.
C36_ReloadRequested ==
    [][(/\ last'.op \in {"clearSearch", "panelSearch"}
        /\ last'.op = "panelSearch" => last'.search # "") =>
         \E i \in 1..Len(pageReqs'[last'.panel]) :
           /\ pageReqs'[last'.panel][i].offset = 0
           /\ pageReqs'[last'.panel][i].search = last'.search]_vars

----------------------------------------------------------------------------
(* Global search and the shared debounce timer *)

\* C37: when no /api/search request is outstanding and none has failed, the
\* searchResults of every panel are the matches of the term of the request
\* that was sent last, in whatever order the responses arrived.
C37_SearchResultsFresh ==
    (searchReqs = << >> /\ issued.term # "" /\ ~issued.failed) =>
      searchResults = ServerSearch(issued.term)

\* the search box (the global box, or the box of a panel) of a pending
\* debounce callback
BoxOf(cb) == IF cb.kind = "global" THEN "global" ELSE cb.panel

\* C38: an input event of one search box leaves the pending debounced
\* search of every other search box pending.
C38_DebounceIndependent ==
    [][(last'.op \in {"globalInput", "panelInput"}) =>
         \A i \in 1..Len(debounceTimer) :
           BoxOf(debounceTimer[i]) # (IF last'.op = "globalInput" THEN "global" ELSE last'.panel)
             => \E j \in 1..Len(debounceTimer') : debounceTimer'[j] = debounceTimer[i]]_vars

----------------------------------------------------------------------------
(* Highlight and re-rendering *)

\* the step just taken rendered panel p anew
ReRendered(p) ==
    \/ last'.op = "page" /\ last'.ok /\ last'.panel = p
    \/ last'.op = "redraw" /\ Len(logs[p].visibleLines) > 0

\* C39: when a panel is rendered anew (a page load completing, the redraw of
\* a display toggle) while a second is selected, the elements of that
\* second in the panel carry the selected highlight after the render.
C39_HighlightFollowsRender ==
    [][\A p \in Panels :
         (/\ ReRendered(p)
          /\ selectedSecond' # NoKey
          /\ Rendered(view'[p], selectedSecond')) =>
           highlight'[p] = selectedSecond']_vars

\* C39 for the page loads alone
C39_AfterPageLoad ==
    [][\A p \in Panels :
         (/\ last'.op = "page" /\ ReRendered(p)
          /\ selectedSecond' # NoKey
          /\ Rendered(view'[p], selectedSecond')) =>
           highlight'[p] = selectedSecond']_vars

\* C39 for the redraw of the display toggles alone
C39_AfterRedraw ==
    [][\A p \in Panels :
         (/\ last'.op = "redraw" /\ ReRendered(p)
          /\ selectedSecond' # NoKey
          /\ Rendered(view'[p], selectedSecond')) =>
           highlight'[p] = selectedSecond']_vars

----------------------------------------------------------------------------
(* Frame condition of the loads *)

\* the list the index holds under key k for panel q (none: empty)
IndexOf(idx, k, q) ==
    IF k \in DOMAIN idx /\ q \in DOMAIN idx[k] THEN idx[k][q] ELSE << >>

\* C40: a task that calls loadLogData for panel P (a scroll event, a search
\* or clear-search of P) or in which a page or targeted-second fetch of P
\* settles, successfully or not, leaves the buffer, currentOffset,
\* totalLines, loading flag, page requests and error positions of every
\* other panel and the index lists of every other panel as they were; the
\* task of a selection, which calls loadSecondFromPanel for every panel,
\* changes no buffer, no error position and no index entry.
C40_LoadFrame ==
    /\ [][\A P \in Panels :
            (/\ last'.op \in {"page", "second", "scroll", "clearSearch", "panelSearch"}
             /\ last'.panel = P) =>
              \A q \in Panels \ {P} :
                /\ logs'[q] = logs[q]
                /\ pageReqs'[q] = pageReqs[q]
                /\ errorPositions'[q] = errorPositions[q]
                /\ \A k \in Keys : IndexOf(secondIndex', k, q) = IndexOf(secondIndex, k, q)]_vars
    /\ [][last'.op = "select" =>
            (logs' = logs /\ errorPositions' = errorPositions /\ secondIndex' = secondIndex)]_vars

\* the targeted fetch of bt has appended the t3 line while out holds t3 in
\* the index and rs has error positions
C40_Witness ==
    /\ last.op = "second" /\ last.ok /\ last.panel = "bt"
    /\ last.batch # << >>
    /\ IndexOf(secondIndex, "t3", "bt") # << >>
    /\ IndexOf(secondIndex, "t3", "out") # << >>
    /\ errorPositions["rs"] # << >>

====
